---- MODULE Spec2Model ----
(***************************************************************************)
(* Session-managed HTTP transport of the MCP quotes server                  *)
(* (class HttpTransportService): security middleware, request router,      *)
(* transport factory, session registry, lifecycle sweeper, start and stop. *)
(*                                                                         *)
(* One action is one turn of the event loop: a handler from its entry (or  *)
(* from the await it resumes after) to its next await or its return.       *)
(* `last` holds what the turn answered or ended; EndTurn clears it before  *)
(* the loop takes its next task.                                           *)
(***************************************************************************)
EXTENDS Integers, Sequences, FiniteSets, TLC

\* ---------------------------------------------------------------- bounds
MaxTransports == 2     \* transports createNewSession may construct in one run
MaxReqs == 2           \* HTTP requests that may be in flight at once
MaxTime == 2           \* last value of the clock
StackLimit == 2        \* nested close() frames the call stack holds
MaxStarts == 1         \* listening sockets start() may bind in one run
MaxStopCalls == 2      \* calls of close() on one listening socket
SessionTimeout == 1    \* options.sessionTimeout, in clock units
MaxLen == 3            \* longest person or topic string of a get_quote call

Transports == 1..MaxTransports
Reqs == 1..MaxReqs
\* Session ids randomUUID may return; one more than can be minted, so that an
\* id unknown to the registry always exists.
Ids == 1..(MaxTransports + 1)
\* The value of the mcp-session-id header: 0 stands for a header that is
\* absent or empty (both are falsy for `!sessionId`), otherwise the id.
SidHeaders == 0..(MaxTransports + 1)

\* ------------------------------------------------------- Host header text
\* Strings are sequences of characters. "l" is the allowed host name,
\* "e" another host name, "p" a port digit.
Undefined == <<"undefined">>           \* req.get("Host") of a request without the header
Localhost == <<"l">>
Wildcard == <<"*">>
\* The Host headers requests carry: none, the allowed host with a port,
\* another host, and a port without a host name
HostHeaders == { Undefined, <<"l", ":", "p">>, <<"e">>, <<":", "p">> }

\* host.split(":")[0]: the text before the first colon
RECURSIVE SplitFirst(_)
SplitFirst(s) ==
  IF s = <<>> \/ Head(s) = ":" THEN <<>>
  ELSE <<Head(s)>> \o SplitFirst(Tail(s))

\* The middleware returned by createDnsRebindingProtection: the status it
\* answers with, or 0 when it calls next().
DnsRebindingProtection(host, allowed) ==
  IF host = Undefined \/ host = <<>> THEN 400
  ELSE LET hostname == SplitFirst(host) IN
       IF hostname # <<>> /\ hostname \notin allowed /\ Wildcard \notin allowed
       THEN 403
       ELSE 0

VARIABLES
  sessions,                 \* this.sessions: id -> [transport, createdAt, lastActivity]
  totalSessionsCreated,     \* this.totalSessionsCreated
  totalSessionsTerminated,  \* this.totalSessionsTerminated
  isRunning,                \* this.isRunning
  server,                   \* this.server: "none", "binding", "listening", "closing", "closed", "failed"
  serverCloseCalls,         \* calls of close() on the current this.server
  cleanupInterval,          \* TRUE while this.cleanupInterval holds an armed timer
  allowedHosts,             \* config.security.allowedHosts
  transports,               \* number of transports constructed so far
  tSessionId,               \* transport.sessionId, 0 while undefined
  tConnected,               \* mcpServer.connect(transport) has resolved
  tCloseCalls,              \* calls of transport.close()
  mcpServers,               \* protocol engines this.mcpServerFactory has been asked for
  tMcpServer,               \* the engine each transport was constructed for, 0 before
  minted,                   \* ids sessionIdGenerator has returned
  req,                      \* the requests in flight
  now,                      \* the clock read by new Date()
  starts,                   \* listening sockets start() has bound so far
  unhandledRejection,       \* a promise was rejected that nothing awaits or catches
  config,                   \* the HttpServerConfig passed to the constructor, with the files it names
  constructed,              \* the constructor: "none" not run yet, "ok" returned, "threw"
  last,                     \* what the current turn of the event loop answered or ended
  mcpHttpEnabled,           \* envConfig.mcpHttpEnabled, from MCP_HTTP_ENABLED
  mainPc,                   \* main(): "none" not called, "parse-failed", "http" or "stdio" branch taken
  stdio,                    \* the stdio server: "none", "connecting", "connected", "failed"
  rawParams,                \* the arguments of a get_quote call: person, topic, numberOfQuotes
  apiKey,                   \* process.env.SERPER_API_KEY
  validationResult,         \* what validateQuoteParameters returned, NotCalled before
  call,                     \* the getQuote call and the requests it has sent
  toolResult,               \* what the get_quote tool handler returned, NotCalled before
  orphans,                  \* sockets this.server no longer refers to: start() replaced them while they were binding
  schedule                  \* options.sessionTimeout and the timer armed from it, NoSchedule where the sweeper is untimed

vars ==
  << sessions, totalSessionsCreated, totalSessionsTerminated, isRunning, server,
     serverCloseCalls, cleanupInterval, allowedHosts, transports, tSessionId,
     tConnected, tCloseCalls, mcpServers, tMcpServer, minted, req, now, starts,
     unhandledRejection, config, constructed, last,
     mcpHttpEnabled, mainPc, stdio,
     rawParams, apiKey, validationResult, call, toolResult, orphans, schedule >>

\* The get_quote tool: its arguments, its environment, its progress
toolVars == << rawParams, apiKey, validationResult, call, toolResult >>

\* The process around the HTTP service: main(), the stdio server, the tool
appVars == << mcpHttpEnabled, mainPc, stdio, toolVars, orphans, schedule >>

\* The HTTP service and main(), which a get_quote call does not touch
serviceVars ==
  << sessions, totalSessionsCreated, totalSessionsTerminated, isRunning, server,
     serverCloseCalls, cleanupInterval, allowedHosts, transports, tSessionId,
     tConnected, tCloseCalls, mcpServers, tMcpServer, minted, req, now, starts,
     unhandledRejection, config, constructed, last, mcpHttpEnabled, mainPc, stdio,
     orphans, schedule >>

Idle == [pc |-> "idle", method |-> "NONE", sid |-> 0, t |-> 0]

\* What a turn reports: the step, the HTTP status it answered with (0 when it
\* answered nothing), the mcp-session-id and Host headers of the request it
\* took in, and the number of sessions it ended.
Ev(op, status, sid, host, n) ==
  [op |-> op, status |-> status, sid |-> sid, host |-> host, n |-> n]
\* A request taken in and answered with `status` (0: not answered yet)
Answer(op, status, sid, host) == Ev(op, status, sid, host, 0)
\* A step that takes in no request
Note(op, n) == Ev(op, 0, 0, Undefined, n)
\* Nothing to report
Quiet == Note("idle", 0)

\* f with key k removed
Remove(f, k) == [x \in DOMAIN f \ {k} |-> f[x]]
\* f with key k mapped to v
Put(f, k, v) == [x \in DOMAIN f \cup {k} |-> IF x = k THEN v ELSE f[x]]

Min(S) == CHOOSE x \in S : \A y \in S : x <= y

\* ------------------------------------------------- session termination
\* The registry, the close counters and the terminated counter, as the
\* synchronous chain close() -> onclose -> terminateSession -> close() ...
\* threads them. `depth` is the room left on the call stack: the chain has no
\* base case while the record is still in the registry, so it ends when the
\* stack is exhausted, and the RangeError rejects the promise of the async
\* close() that was being entered. terminateSession and stop drop the promise
\* close() returns, so that rejection is handled by nobody.
Chain(reg, closes, terminated, rejected) ==
  [sessions |-> reg, tCloseCalls |-> closes, terminated |-> terminated,
   rejected |-> rejected]

RECURSIVE TransportClose(_, _, _), OnClose(_, _, _), TerminateSession(_, _, _)

\* transport.close(): counts the call and fires the onclose hook
TransportClose(st, t, depth) ==
  IF depth = 0 THEN [st EXCEPT !.rejected = TRUE]
  ELSE OnClose([st EXCEPT !.tCloseCalls[t] = @ + 1], t, depth - 1)

\* A transport on which no onclose hook was set
OnClose_NotSet(st, t, depth) == st

\* A faulty hook that does not terminate its own transport's session but the
\* first one in the registry
OnClose_AnySession(st, t, depth) ==
  IF DOMAIN st.sessions # {}
  THEN TerminateSession(st, Min(DOMAIN st.sessions), depth)
  ELSE st

\* transport.onclose as createNewSession sets it
OnClose(st, t, depth) ==
  IF tSessionId[t] # 0 THEN TerminateSession(st, tSessionId[t], depth) ELSE st

\* terminateSession(sessionId)
TerminateSession(st, sessionId, depth) ==
  IF sessionId \notin DOMAIN st.sessions THEN st
  ELSE LET closed == TransportClose(st, st.sessions[sessionId].transport, depth)
       IN [closed EXCEPT !.sessions = Remove(@, sessionId), !.terminated = @ + 1]

\* expiredSessions.forEach(terminateSession)
RECURSIVE TerminateAll(_, _)
TerminateAll(st, ids) ==
  IF ids = {} THEN st
  ELSE TerminateAll(TerminateSession(st, Min(ids), StackLimit), ids \ {Min(ids)})

\* A faulty sweeper that collects only the first session it finds expired
ExpiredSessions_FirstOnly(reg, time) ==
  LET expired == { id \in DOMAIN reg : time - reg[id].lastActivity > SessionTimeout }
  IN IF expired = {} THEN {} ELSE {Min(expired)}

\* A faulty sweeper that also collects a session idle for exactly the timeout
ExpiredSessions_AtTimeout(reg, time) ==
  { id \in DOMAIN reg : time - reg[id].lastActivity >= SessionTimeout }

\* The ids the sweeper tick collects: idle for longer than the timeout
ExpiredSessions(reg, time) ==
  { id \in DOMAIN reg : time - reg[id].lastActivity > SessionTimeout }

\* A faulty stop that empties the registry and starts its statistics afresh
CloseAllSessions_ResetsCount(st, ids) ==
  [st EXCEPT !.sessions = << >>, !.terminated = 0]

\* stop()'s loop over this.sessions.entries(): close, delete, count
RECURSIVE CloseAllSessions(_, _)
CloseAllSessions(st, ids) ==
  IF ids = {} THEN st
  ELSE LET id == Min(ids)
           closed == TransportClose(st, st.sessions[id].transport, StackLimit)
           removed == [closed EXCEPT !.sessions = Remove(@, id), !.terminated = @ + 1]
       IN CloseAllSessions(removed, ids \ {id})

\* A faulty generator that hands out an id again once it is free
sessionIdGenerator_Repeats(used) == Min(Ids \ DOMAIN sessions)

\* sessionIdGenerator: randomUUID() returns a value it has not returned before
sessionIdGenerator(used) == Min(Ids \ used)

\* The chain's view of the current state, and the state written back
Here == Chain(sessions, tCloseCalls, totalSessionsTerminated, unhandledRejection)
Becomes(st) ==
  /\ sessions' = st.sessions
  /\ tCloseCalls' = st.tCloseCalls
  /\ totalSessionsTerminated' = st.terminated
  /\ unhandledRejection' = st.rejected

\* ------------------------------------------------------------- routing
\* A faulty branch that lets any initialization body create a session,
\* whatever session id the request bears
PostRoute_InitAlwaysCreates(sessionId, isInit, known) ==
  IF sessionId # 0 /\ sessionId \in known THEN "reuse"
  ELSE IF isInit THEN "create"
  ELSE "reject"

\* A faulty branch that creates a session for any POST without a session
\* id, whatever its body
PostRoute_NoBodyCheck(sessionId, isInit, known) ==
  IF sessionId # 0 /\ sessionId \in known THEN "reuse"
  ELSE IF sessionId = 0 THEN "create"
  ELSE "reject"

\* handleMcpPost's branch: reuse the session, create one, or reject
PostRoute(sessionId, isInit, known) ==
  IF sessionId # 0 /\ sessionId \in known THEN "reuse"
  ELSE IF sessionId = 0 /\ isInit THEN "create"
  ELSE "reject"

\* A faulty guard that only tests that the header is there
SessionRoute_MissingOnly(sessionId, known) ==
  IF sessionId = 0 THEN "reject" ELSE "reuse"

\* handleMcpGet's and handleMcpDelete's guard
SessionRoute(sessionId, known) ==
  IF sessionId = 0 \/ sessionId \notin known THEN "reject" ELSE "reuse"

\* sendError with SESSION_NOT_FOUND
SessionNotFound(sessionId, host) ==
  /\ last' = Answer("session-not-found", 400, sessionId, host)
  /\ UNCHANGED << sessions, req, transports, mcpServers, tMcpServer >>

\* The request is handed to the session's transport: transport.handleRequest
Routed(r, method, sessionId, host) ==
  /\ req' = [req EXCEPT ![r] = [pc |-> "handling", method |-> method,
               sid |-> sessionId, t |-> sessions[sessionId].transport]]
  /\ last' = Answer("routed", 0, sessionId, host)
  /\ UNCHANGED << transports, mcpServers, tMcpServer >>

\* A faulty factory that hands every session the one engine it built first
McpServerFactory_Shared(made) == 1

\* this.mcpServerFactory(), the createMcpServer of startHttpServer: each call
\* builds a new McpServer; `made` is the number built before
McpServerFactory(made) == made + 1

\* A faulty factory that returns the transport without awaiting connect
CreateNewSession_NoAwait(r) ==
  /\ transports < MaxTransports
  /\ transports' = transports + 1
  /\ mcpServers' = mcpServers + 1
  /\ tMcpServer' = [tMcpServer EXCEPT ![transports + 1] = McpServerFactory(mcpServers)]
  /\ req' = [req EXCEPT ![r] = [pc |-> "handling", method |-> "POST",
               sid |-> 0, t |-> transports + 1]]
  /\ UNCHANGED sessions

\* createNewSession up to `await mcpServer.connect(transport)`: a new
\* protocol engine from the factory and a new transport with its callbacks
CreateNewSession(r) ==
  /\ transports < MaxTransports
  /\ transports' = transports + 1
  /\ mcpServers' = mcpServers + 1
  /\ tMcpServer' = [tMcpServer EXCEPT ![transports + 1] = McpServerFactory(mcpServers)]
  /\ req' = [req EXCEPT ![r] = [pc |-> "connecting", method |-> "POST",
               sid |-> 0, t |-> transports + 1]]
  /\ UNCHANGED sessions

\* The handler's catch block for an error thrown before its first await
\* (a property read on the undefined result of sessions.get): 500
RouteError(sessionId, host) ==
  /\ last' = Answer("route-error", 500, sessionId, host)
  /\ UNCHANGED << sessions, req, transports, mcpServers, tMcpServer >>

\* handleMcpPost up to its first await
HandleMcpPost(r, host, sessionId, isInit) ==
  LET route == PostRoute(sessionId, isInit, DOMAIN sessions) IN
  CASE route = "reuse" ->
         IF sessionId \notin DOMAIN sessions THEN RouteError(sessionId, host)
         ELSE /\ sessions' = [sessions EXCEPT ![sessionId].lastActivity = now]
              /\ Routed(r, "POST", sessionId, host)
    [] route = "create" ->
         /\ CreateNewSession(r)
         /\ last' = Answer("creating", 0, sessionId, host)
    [] OTHER -> SessionNotFound(sessionId, host)

\* A faulty GET handler that does not touch lastActivity
HandleMcpGet_NoRefresh(r, host, sessionId) ==
  IF SessionRoute(sessionId, DOMAIN sessions) = "reject"
  THEN SessionNotFound(sessionId, host)
  ELSE IF sessionId \notin DOMAIN sessions THEN RouteError(sessionId, host)
  ELSE /\ Routed(r, "GET", sessionId, host)
       /\ UNCHANGED sessions

\* handleMcpGet up to its await
HandleMcpGet(r, host, sessionId) ==
  IF SessionRoute(sessionId, DOMAIN sessions) = "reject"
  THEN SessionNotFound(sessionId, host)
  ELSE IF sessionId \notin DOMAIN sessions THEN RouteError(sessionId, host)
  ELSE /\ sessions' = [sessions EXCEPT ![sessionId].lastActivity = now]
       /\ Routed(r, "GET", sessionId, host)

\* handleMcpDelete up to its await
HandleMcpDelete(r, host, sessionId) ==
  IF SessionRoute(sessionId, DOMAIN sessions) = "reject"
  THEN SessionNotFound(sessionId, host)
  ELSE IF sessionId \notin DOMAIN sessions THEN RouteError(sessionId, host)
  ELSE /\ Routed(r, "DELETE", sessionId, host)
       /\ UNCHANGED sessions

\* A socket of this process is bound to config.port: listen() on another
\* socket for the same port ends in its "error" event (EADDRINUSE)
PortInUse == server = "listening" \/ \E i \in DOMAIN orphans : orphans[i] = "listening"

\* The event loop is free to take its next task
Turn == last = Quiet

\* The slot a new request takes: requests in flight are told apart by
\* their slot only, so a new one takes the first free slot.
FreeSlot(r) == req[r].pc = "idle" /\ \A q \in Reqs : q < r => req[q].pc # "idle"

\* A request on /mcp passes the middleware chain createExpressApp installs
\* and, unless the security middleware answers it, enters the route handler
\* setupRoutes registered for its method
Request(r, method, host, sessionId, isInit) ==
  /\ Turn
  /\ FreeSlot(r)
  /\ server \in {"listening", "closing"} \/ PortInUse
  /\ LET verdict == DnsRebindingProtection(host, allowedHosts) IN
     IF verdict # 0
     THEN /\ last' = Answer("host-rejected", verdict, sessionId, host)
          /\ UNCHANGED << sessions, req, transports, mcpServers, tMcpServer >>
     ELSE CASE method = "POST" -> HandleMcpPost(r, host, sessionId, isInit)
            [] method = "GET" -> HandleMcpGet(r, host, sessionId)
            [] OTHER -> HandleMcpDelete(r, host, sessionId)
  /\ UNCHANGED << totalSessionsCreated, totalSessionsTerminated, unhandledRejection, isRunning, server,
                  serverCloseCalls, cleanupInterval, allowedHosts, config, appVars, constructed, tSessionId,
                  tConnected, tCloseCalls, minted, now, starts >>

Post(r, host, sessionId, isInit) == Request(r, "POST", host, sessionId, isInit)

Get(r, host, sessionId) == Request(r, "GET", host, sessionId, FALSE)

Delete(r, host, sessionId) == Request(r, "DELETE", host, sessionId, FALSE)

\* ------------------------------------------------------- configuration
MinPort == 1
MaxPort == 65535
\* A file on disk as the validation sees it: whether it exists, whether it
\* can be read, and which of the markers the validation looks for it contains
File(exists, readable, text) == [exists |-> exists, readable |-> readable, text |-> text]
NoFile == File(FALSE, FALSE, {})
CertMarker == "-----BEGIN CERTIFICATE-----"
KeyMarkers == {"-----BEGIN", "PRIVATE KEY-----"}
CertFiles ==
  {NoFile, File(TRUE, FALSE, {})} \cup { File(TRUE, TRUE, t) : t \in SUBSET {CertMarker} }
KeyFiles ==
  {NoFile, File(TRUE, FALSE, {})} \cup { File(TRUE, TRUE, t) : t \in SUBSET KeyMarkers }
\* Ports around the limits; 0 also stands for a port that is not given
Ports == {-1, 0, MinPort, MaxPort, MaxPort + 1}
\* Host and path strings: empty (or not given), or some text
Texts == {<<>>, <<"x">>}

Configs ==
  [port : Ports, host : Texts, httpsEnabled : BOOLEAN,
   certPath : Texts, keyPath : Texts, certFile : CertFiles, keyFile : KeyFiles]

\* A configuration that passes: plain HTTP on host "x"
ValidConfig ==
  [port |-> MinPort, host |-> <<"x">>, httpsEnabled |-> FALSE,
   certPath |-> <<>>, keyPath |-> <<>>, certFile |-> NoFile, keyFile |-> NoFile]

\* validateHttpsCertificates: the message of the error it throws, or "ok"
ValidateHttpsCertificates(cfg) ==
  IF ~cfg.httpsEnabled THEN "ok"
  ELSE IF ~cfg.certFile.exists THEN "HTTPS certificate file not found"
  ELSE IF ~cfg.keyFile.exists THEN "HTTPS private key file not found"
  ELSE IF ~cfg.certFile.readable THEN "readFileSync(certPath) failed"
  ELSE IF ~cfg.keyFile.readable THEN "readFileSync(keyPath) failed"
  ELSE IF CertMarker \notin cfg.certFile.text THEN "Invalid certificate file format"
  ELSE IF ~(KeyMarkers \subseteq cfg.keyFile.text) THEN "Invalid private key file format"
  ELSE "ok"

\* A faulty validation that forgets the upper limit of the port
ValidateConfig_NoUpperLimit(cfg) ==
  IF cfg.port = 0 \/ cfg.port < MinPort THEN "port must be between 1 and 65535"
  ELSE IF cfg.host = <<>> THEN "host is required"
  ELSE IF cfg.httpsEnabled
  THEN IF cfg.certPath = <<>> \/ cfg.keyPath = <<>>
       THEN "HTTPS requires certPath and keyPath"
       ELSE ValidateHttpsCertificates(cfg)
  ELSE "ok"

\* validateConfig: the message of the error it throws, or "ok"
ValidateConfig(cfg) ==
  IF cfg.port = 0 \/ cfg.port < MinPort \/ cfg.port > MaxPort
  THEN "port must be between 1 and 65535"
  ELSE IF cfg.host = <<>> THEN "host is required"
  ELSE IF cfg.httpsEnabled
  THEN IF cfg.certPath = <<>> \/ cfg.keyPath = <<>>
       THEN "HTTPS requires certPath and keyPath"
       ELSE ValidateHttpsCertificates(cfg)
  ELSE "ok"

\* ------------------------------------------- get_quote: its arguments
MinQuotes == 1
MaxQuotes == 10

\* JavaScript values, told apart by their type
JsUndefined == [type |-> "undefined"]
JsNull == [type |-> "null"]
JsNaN == [type |-> "NaN"]
JsString(text) == [type |-> "string", text |-> text]
\* A finite number, held as twice its value: an odd `twice` is a number with
\* a fractional part of one half
JsNumber(twice) == [type |-> "number", twice |-> twice]
\* Nothing was returned yet
NotCalled == [type |-> "not-called"]

\* typeof v
TypeOf(v) ==
  IF v.type = "NaN" THEN "number" ELSE IF v.type = "null" THEN "object" ELSE v.type
\* v === null || v === undefined
IsNullish(v) == v.type \in {"null", "undefined"}
\* Number.isInteger(v)
NumberIsInteger(v) == v.type = "number" /\ v.twice % 2 = 0
\* !v for the values above
Falsy(v) ==
  \/ v.type \in {"undefined", "null", "NaN"}
  \/ v.type = "string" /\ v.text = << >>
  \/ v.type = "number" /\ v.twice = 0

\* Characters: a blank and a letter
Chars == {" ", "a"}
Strings == UNION { [1..n -> Chars] : n \in 0..MaxLen }
\* Numbers around the limits of numberOfQuotes, with halves between them
Twices ==
  { -2, 0, 1, 2 * MinQuotes, 2 * MinQuotes + 1,
    2 * MaxQuotes - 1, 2 * MaxQuotes, 2 * MaxQuotes + 1, 2 * MaxQuotes + 2 }

Persons == {JsUndefined, JsNull, JsNumber(2)} \cup { JsString(t) : t \in Strings }
Topics == {JsUndefined, JsNull, JsNumber(2)} \cup { JsString(t) : t \in Strings }
QuoteCounts ==
  {JsUndefined, JsNull, JsNaN, JsString(<<"a">>)} \cup { JsNumber(t) : t \in Twices }
ApiKeys == {JsUndefined, JsString(<< >>), JsString(<<" ">>), JsString(<<"a">>)}

\* String.prototype.trim
RECURSIVE TrimStart(_)
TrimStart(t) ==
  IF Len(t) > 0 /\ t[1] = " " THEN TrimStart(SubSeq(t, 2, Len(t))) ELSE t
RECURSIVE TrimEnd(_)
TrimEnd(t) ==
  IF Len(t) > 0 /\ t[Len(t)] = " " THEN TrimEnd(SubSeq(t, 1, Len(t) - 1)) ELSE t
Trim(t) == TrimEnd(TrimStart(t))

\* ParameterValidationResult
ParameterValid(value) == [success |-> TRUE, value |-> value, errors |-> << >>]
ParameterInvalid(message) == [success |-> FALSE, errors |-> <<message>>]

\* A faulty person check that takes the string as it is
ValidatePersonParameter_NoTrim(person) ==
  IF IsNullish(person) THEN ParameterInvalid("Person parameter is required")
  ELSE IF TypeOf(person) # "string"
  THEN ParameterInvalid("Person parameter must be a string")
  ELSE IF Len(person.text) = 0
  THEN ParameterInvalid("Person parameter cannot be empty")
  ELSE ParameterValid(person)

\* validatePersonParameter
ValidatePersonParameter(person) ==
  IF IsNullish(person) THEN ParameterInvalid("Person parameter is required")
  ELSE IF TypeOf(person) # "string"
  THEN ParameterInvalid("Person parameter must be a string")
  ELSE LET trimmedPerson == Trim(person.text) IN
       IF Len(trimmedPerson) = 0
       THEN ParameterInvalid("Person parameter cannot be empty")
       ELSE ParameterValid(JsString(trimmedPerson))

\* validateTopicParameter
ValidateTopicParameter(topic) ==
  IF IsNullish(topic) THEN ParameterValid(JsUndefined)
  ELSE IF TypeOf(topic) # "string"
  THEN ParameterInvalid("Topic parameter must be a string when provided")
  ELSE LET trimmedTopic == Trim(topic.text) IN
       IF Len(trimmedTopic) = 0
       THEN ParameterValid(JsUndefined)
       ELSE ParameterValid(JsString(trimmedTopic))

\* validateNumberOfQuotesParameter
ValidateNumberOfQuotesParameter(numberOfQuotes) ==
  IF IsNullish(numberOfQuotes)
  THEN ParameterInvalid("Number of quotes parameter is required")
  ELSE IF TypeOf(numberOfQuotes) # "number"
  THEN ParameterInvalid("Number of quotes parameter must be a number")
  ELSE IF ~NumberIsInteger(numberOfQuotes)
  THEN ParameterInvalid("Number of quotes parameter must be an integer")
  ELSE IF numberOfQuotes.twice < 2 * MinQuotes \/ numberOfQuotes.twice > 2 * MaxQuotes
  THEN ParameterInvalid("Number of quotes parameter must be between 1 and 10")
  ELSE ParameterValid(numberOfQuotes)

\* errors.push(...validation.errors) when the parameter's validation failed
PushErrors(errors, validation) ==
  IF validation.success THEN errors ELSE errors \o validation.errors

\* A faulty validation that reports the first error only
ValidateQuoteParameters_FirstErrorOnly(raw) ==
  LET personValidation == ValidatePersonParameter(raw.person)
      topicValidation == ValidateTopicParameter(raw.topic)
      numberOfQuotesValidation == ValidateNumberOfQuotesParameter(raw.numberOfQuotes)
      errors == PushErrors(PushErrors(PushErrors(<< >>, personValidation),
                                      topicValidation), numberOfQuotesValidation)
  IN IF Len(errors) > 0
     THEN [success |-> FALSE, errors |-> <<errors[1]>>]
     ELSE [success |-> TRUE,
           data |-> [person |-> personValidation.value,
                     topic |-> topicValidation.value,
                     numberOfQuotes |-> numberOfQuotesValidation.value]]

\* validateQuoteParameters
ValidateQuoteParameters(raw) ==
  LET personValidation == ValidatePersonParameter(raw.person)
      topicValidation == ValidateTopicParameter(raw.topic)
      numberOfQuotesValidation == ValidateNumberOfQuotesParameter(raw.numberOfQuotes)
      errors == PushErrors(PushErrors(PushErrors(<< >>, personValidation),
                                      topicValidation), numberOfQuotesValidation)
  IN IF Len(errors) > 0
     THEN [success |-> FALSE, errors |-> errors]
     ELSE [success |-> TRUE,
           data |-> [person |-> personValidation.value,
                     topic |-> topicValidation.value,
                     numberOfQuotes |-> numberOfQuotesValidation.value]]

\* The sweeper is untimed: its tick may come at any moment
NoSchedule == [type |-> "untimed"]

\* No socket has been replaced and the sweeper is untimed
PlainRun ==
  /\ orphans = << >>
  /\ schedule = NoSchedule

\* No get_quote call is part of the run
NoTool ==
  /\ rawParams = [person |-> JsUndefined, topic |-> JsUndefined,
                  numberOfQuotes |-> JsUndefined]
  /\ apiKey = JsUndefined
  /\ validationResult = NotCalled
  /\ call = NotCalled
  /\ toolResult = NotCalled

\* The HTTP service and main() are not part of the run
NoService ==
  /\ sessions = << >>
  /\ totalSessionsCreated = 0
  /\ totalSessionsTerminated = 0
  /\ isRunning = FALSE
  /\ server = "none"
  /\ serverCloseCalls = 0
  /\ cleanupInterval = FALSE
  /\ allowedHosts = {Localhost}
  /\ transports = 0
  /\ tSessionId = [t \in Transports |-> 0]
  /\ tConnected = [t \in Transports |-> FALSE]
  /\ tCloseCalls = [t \in Transports |-> 0]
  /\ mcpServers = 0
  /\ tMcpServer = [t \in Transports |-> 0]
  /\ minted = {}
  /\ req = [r \in Reqs |-> Idle]
  /\ now = 0
  /\ starts = 0
  /\ unhandledRejection = FALSE
  /\ config = ValidConfig
  /\ constructed = "none"
  /\ last = Quiet
  /\ mcpHttpEnabled = FALSE
  /\ mainPc = "none"
  /\ stdio = "none"
  /\ PlainRun

\* The service used on its own: main() is not part of the run
NoMain ==
  /\ mcpHttpEnabled = TRUE
  /\ mainPc = "none"
  /\ stdio = "none"
  /\ NoTool
  /\ PlainRun

\* The service as its constructor leaves it (a valid configuration)
Init ==
  /\ sessions = <<>>
  /\ totalSessionsCreated = 0
  /\ totalSessionsTerminated = 0
  /\ isRunning = FALSE
  /\ server = "none"
  /\ serverCloseCalls = 0
  /\ cleanupInterval = TRUE
  /\ allowedHosts = {Localhost}
  /\ transports = 0
  /\ tSessionId = [t \in Transports |-> 0]
  /\ tConnected = [t \in Transports |-> FALSE]
  /\ tCloseCalls = [t \in Transports |-> 0]
  /\ mcpServers = 0
  /\ tMcpServer = [t \in Transports |-> 0]
  /\ minted = {}
  /\ req = [r \in Reqs |-> Idle]
  /\ now = 0
  /\ starts = 0
  /\ unhandledRejection = FALSE
  /\ config = ValidConfig
  /\ constructed = "ok"
  /\ last = Quiet
  /\ NoMain

\* createNewSession after `await mcpServer.connect(transport)`: the transport
\* is returned and handleMcpPost calls transport.handleRequest; or connect
\* rejected and handleMcpPost's catch answers 500
ConnectSettles(r, ok) ==
  /\ Turn
  /\ req[r].pc = "connecting"
  /\ IF ok
     THEN /\ tConnected' = [tConnected EXCEPT ![req[r].t] = TRUE]
          /\ req' = [req EXCEPT ![r].pc = "handling"]
          /\ last' = Quiet
     ELSE /\ req' = [req EXCEPT ![r] = Idle]
          /\ last' = Answer("handler-error", 500, 0, Undefined)
          /\ UNCHANGED tConnected
  /\ UNCHANGED << sessions, totalSessionsCreated, totalSessionsTerminated, unhandledRejection, isRunning,
                  server, serverCloseCalls, cleanupInterval, allowedHosts, config, appVars, constructed, transports, mcpServers, tMcpServer,
                  tSessionId, tCloseCalls, minted, now, starts >>

\* A faulty callback that does not store the record
OnSessionInitialized_NoStore(reg, sessionId, t, time) == reg

\* A faulty callback that keeps the new record only
OnSessionInitialized_Replaces(reg, sessionId, t, time) ==
  Put(<< >>, sessionId, [transport |-> t, createdAt |-> time, lastActivity |-> time])

\* The onsessioninitialized callback createNewSession passes to the transport
OnSessionInitialized(reg, sessionId, t, time) ==
  Put(reg, sessionId, [transport |-> t, createdAt |-> time, lastActivity |-> time])

\* transport.handleRequest settles for the initialization POST that created
\* the transport: the transport accepts it, mints the session id and fires
\* the callback ("ok"), answers with an error of its own ("rejected"), or
\* throws and handleMcpPost's catch answers 500 ("throw")
InitSettles(r, outcome) ==
  /\ Turn
  /\ req[r].pc = "handling"
  /\ req[r].method = "POST" /\ req[r].sid = 0
  /\ LET t == req[r].t
         sessionId == sessionIdGenerator(minted)
     IN CASE outcome = "ok" ->
               /\ tSessionId' = [tSessionId EXCEPT ![t] = sessionId]
               /\ minted' = minted \cup {sessionId}
               /\ sessions' = OnSessionInitialized(sessions, sessionId, t, now)
               /\ totalSessionsCreated' = totalSessionsCreated + 1
               /\ last' = Answer("session-initialized", 200, sessionId, Undefined)
          [] outcome = "rejected" ->
               /\ last' = Answer("transport-rejected", 400, 0, Undefined)
               /\ UNCHANGED << tSessionId, minted, sessions, totalSessionsCreated >>
          [] OTHER ->
               /\ last' = Answer("handler-error", 500, 0, Undefined)
               /\ UNCHANGED << tSessionId, minted, sessions, totalSessionsCreated >>
  /\ req' = [req EXCEPT ![r] = Idle]
  /\ UNCHANGED << totalSessionsTerminated, unhandledRejection, isRunning, server, serverCloseCalls,
                  cleanupInterval, allowedHosts, config, appVars, constructed, transports, mcpServers, tMcpServer, tConnected, tCloseCalls,
                  now, starts >>

\* transport.handleRequest settles for a POST or GET routed to an existing
\* session; nothing follows the await but logging
RoutedSettles(r, outcome) ==
  /\ Turn
  /\ req[r].pc = "handling"
  /\ req[r].method \in {"POST", "GET"} /\ req[r].sid # 0
  /\ last' = IF outcome = "ok"
             THEN Answer("handled", 200, req[r].sid, Undefined)
             ELSE Answer("handler-error", 500, req[r].sid, Undefined)
  /\ req' = [req EXCEPT ![r] = Idle]
  /\ UNCHANGED << sessions, totalSessionsCreated, totalSessionsTerminated, unhandledRejection, isRunning,
                  server, serverCloseCalls, cleanupInterval, allowedHosts, config, appVars, constructed, transports, mcpServers, tMcpServer,
                  tSessionId, tConnected, tCloseCalls, minted, now, starts >>

\* transport.handleRequest settles for a DELETE. If it resolved,
\* handleMcpDelete goes on to terminateSession(sessionId); `selfClose`: the
\* transport closed itself while it handled the DELETE. If it threw, the
\* catch answers 500 and terminateSession is not reached.
DeleteSettles(r, outcome, selfClose) ==
  /\ Turn
  /\ req[r].pc = "handling"
  /\ req[r].method = "DELETE"
  /\ IF outcome = "ok"
     THEN /\ LET handled == IF selfClose
                            THEN TransportClose(Here, req[r].t, StackLimit)
                            ELSE Here
             IN Becomes(TerminateSession(handled, req[r].sid, StackLimit))
          /\ last' = Ev("session-deleted", 200, req[r].sid, Undefined,
                        IF req[r].sid \in DOMAIN sessions THEN 1 ELSE 0)
     ELSE /\ Becomes(IF selfClose
                      THEN TransportClose(Here, req[r].t, StackLimit)
                      ELSE Here)
          /\ last' = Answer("handler-error", 500, req[r].sid, Undefined)
  /\ req' = [req EXCEPT ![r] = Idle]
  /\ UNCHANGED << totalSessionsCreated, isRunning, server, serverCloseCalls,
                  cleanupInterval, allowedHosts, config, appVars, constructed, transports, mcpServers, tMcpServer, tSessionId, tConnected,
                  minted, now, starts >>

\* The transport of a live session closes for a reason of its own (its
\* connection drops): close() runs and fires the onclose hook
TransportCloses(t) ==
  /\ Turn
  /\ t <= transports
  /\ tSessionId[t] # 0
  /\ tCloseCalls[t] = 0
  /\ Becomes(TransportClose(Here, t, StackLimit))
  /\ last' = Ev("transport-closed", 0, tSessionId[t], Undefined, 1)
  /\ UNCHANGED << totalSessionsCreated, isRunning, server, serverCloseCalls,
                  cleanupInterval, allowedHosts, config, appVars, constructed, transports, mcpServers, tMcpServer, tSessionId, tConnected,
                  minted, req, now, starts >>

\* One tick of the interval setupSessionCleanup arms
SweepTick ==
  /\ Turn
  /\ cleanupInterval
  /\ LET expiredSessions == ExpiredSessions(sessions, now) IN
     /\ Becomes(TerminateAll(Here, expiredSessions))
     /\ last' = Note("sweep", Cardinality(expiredSessions))
  /\ UNCHANGED << totalSessionsCreated, isRunning, server, serverCloseCalls,
                  cleanupInterval, allowedHosts, config, appVars, constructed, transports, mcpServers, tMcpServer, tSessionId, tConnected,
                  minted, req, now, starts >>

\* Time passes
ClockTick ==
  /\ Turn
  /\ now < MaxTime
  /\ now' = now + 1
  /\ UNCHANGED << sessions, totalSessionsCreated, totalSessionsTerminated, unhandledRejection, isRunning,
                  server, serverCloseCalls, cleanupInterval, allowedHosts, config, appVars, constructed, transports, mcpServers, tMcpServer,
                  tSessionId, tConnected, tCloseCalls, minted, req, starts, last >>

\* A faulty guard that never rejects
AlreadyRunning_Never(running) == FALSE

\* start()'s guard: `if (this.isRunning)`
AlreadyRunning(running) == running

\* start() while at most `limit` sockets have been created: throws when
\* already running, else creates a new listening socket and stores it in
\* this.server; a socket this.server held that is not closed lives on
StartUpTo(limit) ==
  /\ Turn
  /\ IF AlreadyRunning(isRunning)
     THEN /\ last' = Note("start-rejected", 0)
          /\ UNCHANGED << server, serverCloseCalls, starts, orphans >>
     ELSE /\ starts < limit
          /\ starts' = starts + 1
          /\ orphans' = IF server \in {"binding", "listening"}
                         THEN Append(orphans, server) ELSE orphans
          /\ server' = "binding"
          /\ serverCloseCalls' = 0
          /\ last' = Quiet
  /\ UNCHANGED << sessions, totalSessionsCreated, totalSessionsTerminated, unhandledRejection, isRunning,
                  cleanupInterval, allowedHosts, config, constructed, transports, mcpServers, tMcpServer, tSessionId, tConnected,
                  tCloseCalls, minted, req, now,
                  mcpHttpEnabled, mainPc, stdio, toolVars, schedule >>

\* start() on a service that is started once
Start == StartUpTo(MaxStarts)

\* The listen callback of startHttpServer / startHttpsServer
ListenCallback ==
  /\ Turn
  /\ server = "binding"
  /\ ~PortInUse
  /\ server' = "listening"
  /\ isRunning' = TRUE
  /\ UNCHANGED << sessions, totalSessionsCreated, totalSessionsTerminated, unhandledRejection,
                  serverCloseCalls, cleanupInterval, allowedHosts, config, appVars, constructed, transports, mcpServers, tMcpServer,
                  tSessionId, tConnected, tCloseCalls, minted, req, now, starts, last >>

\* The server's "error" event before it listens: start() rejects
ListenError ==
  /\ Turn
  /\ server = "binding"
  /\ server' = "failed"
  /\ last' = Note("listen-error", 0)
  /\ UNCHANGED << sessions, totalSessionsCreated, totalSessionsTerminated, unhandledRejection, isRunning,
                  serverCloseCalls, cleanupInterval, allowedHosts, config, appVars, constructed, transports, mcpServers, tMcpServer,
                  tSessionId, tConnected, tCloseCalls, minted, req, now, starts >>

\* The listen callback of an earlier start() whose socket this.server no
\* longer refers to: the closure still marks the service running
OrphanListenCallback(i) ==
  /\ Turn
  /\ i \in DOMAIN orphans
  /\ orphans[i] = "binding"
  /\ ~PortInUse
  /\ orphans' = [orphans EXCEPT ![i] = "listening"]
  /\ isRunning' = TRUE
  /\ UNCHANGED << sessions, totalSessionsCreated, totalSessionsTerminated, unhandledRejection,
                  server, serverCloseCalls, cleanupInterval, allowedHosts, config, constructed,
                  transports, mcpServers, tMcpServer, tSessionId, tConnected, tCloseCalls,
                  minted, req, now, starts, last,
                  mcpHttpEnabled, mainPc, stdio, toolVars, schedule >>

\* The "error" event of such a socket: the start() that created it rejects
OrphanListenError(i) ==
  /\ Turn
  /\ i \in DOMAIN orphans
  /\ orphans[i] = "binding"
  /\ orphans' = [orphans EXCEPT ![i] = "failed"]
  /\ last' = Note("listen-error", 0)
  /\ UNCHANGED << sessions, totalSessionsCreated, totalSessionsTerminated, unhandledRejection,
                  isRunning, server, serverCloseCalls, cleanupInterval, allowedHosts, config,
                  constructed, transports, mcpServers, tMcpServer, tSessionId, tConnected,
                  tCloseCalls, minted, req, now, starts,
                  mcpHttpEnabled, mainPc, stdio, toolVars, schedule >>

\* A faulty guard that only tests that a socket was ever created
NotRunning_ServerOnly(srv, running) == srv = "none"

\* stop()'s guard: `!this.server || !this.isRunning`
NotRunning(srv, running) == srv = "none" \/ ~running

\* stop() up to the point where it waits for the socket's close callback
Stop ==
  /\ Turn
  /\ IF NotRunning(server, isRunning)
     THEN /\ last' = Note("stop-not-running", 0)
          /\ UNCHANGED << sessions, totalSessionsTerminated, unhandledRejection, server, serverCloseCalls,
                          cleanupInterval, tCloseCalls >>
     ELSE /\ serverCloseCalls < MaxStopCalls
          /\ cleanupInterval' = FALSE
          /\ Becomes(CloseAllSessions(Here, DOMAIN sessions))
          /\ serverCloseCalls' = serverCloseCalls + 1
          /\ server' = "closing"
          /\ last' = Note("stop", Cardinality(DOMAIN sessions))
  /\ UNCHANGED << totalSessionsCreated, isRunning, allowedHosts, config, appVars, constructed, transports, mcpServers, tMcpServer,
                  tSessionId, tConnected, minted, req, now, starts >>

\* The callback stop() passed to server.close()
CloseCallback ==
  /\ Turn
  /\ server = "closing"
  /\ server' = "closed"
  /\ isRunning' = FALSE
  /\ UNCHANGED << sessions, totalSessionsCreated, totalSessionsTerminated, unhandledRejection,
                  serverCloseCalls, cleanupInterval, allowedHosts, config, appVars, constructed, transports, mcpServers, tMcpServer,
                  tSessionId, tConnected, tCloseCalls, minted, req, now, starts, last >>

\* The turn is over: what it answered has gone out
EndTurn ==
  /\ ~Turn
  /\ last' = Quiet
  /\ UNCHANGED << sessions, totalSessionsCreated, totalSessionsTerminated, unhandledRejection, isRunning,
                  server, serverCloseCalls, cleanupInterval, allowedHosts, config, appVars, constructed, transports, mcpServers, tMcpServer,
                  tSessionId, tConnected, tCloseCalls, minted, req, now, starts >>

InitOutcomes == {"ok", "rejected", "throw"}
Outcomes == {"ok", "throw"}

Next ==
  \/ \E r \in Reqs, host \in HostHeaders, sessionId \in SidHeaders, isInit \in BOOLEAN :
       Post(r, host, sessionId, isInit)
  \/ \E r \in Reqs, host \in HostHeaders, sessionId \in SidHeaders : Get(r, host, sessionId)
  \/ \E r \in Reqs, host \in HostHeaders, sessionId \in SidHeaders : Delete(r, host, sessionId)
  \/ \E r \in Reqs, ok \in BOOLEAN : ConnectSettles(r, ok)
  \/ \E r \in Reqs, outcome \in InitOutcomes : InitSettles(r, outcome)
  \/ \E r \in Reqs, outcome \in Outcomes : RoutedSettles(r, outcome)
  \/ \E r \in Reqs, outcome \in Outcomes, selfClose \in BOOLEAN :
       DeleteSettles(r, outcome, selfClose)
  \/ \E t \in Transports : TransportCloses(t)
  \/ SweepTick
  \/ ClockTick
  \/ Start
  \/ ListenCallback
  \/ ListenError
  \/ Stop
  \/ CloseCallback
  \/ EndTurn

Spec == Init /\ [][Next]_vars

\* ------------------------------------------- start and stop, repeatedly
MaxRestarts == 2       \* listening sockets start() may create in a run with restarts

\* The service is started, stopped and started again, in any order and at any
\* moment, while clients open sessions
LifecycleNext ==
  \/ StartUpTo(MaxRestarts)
  \/ ListenCallback
  \/ ListenError
  \/ \E i \in 1..MaxRestarts : OrphanListenCallback(i)
  \/ \E i \in 1..MaxRestarts : OrphanListenError(i)
  \/ Stop
  \/ CloseCallback
  \/ \E r \in Reqs : Post(r, <<"l", ":", "p">>, 0, TRUE)
  \/ \E r \in Reqs, ok \in BOOLEAN : ConnectSettles(r, ok)
  \/ \E r \in Reqs, outcome \in InitOutcomes : InitSettles(r, outcome)
  \/ SweepTick
  \/ ClockTick
  \/ EndTurn

LifecycleSpec == Init /\ [][LifecycleNext]_vars

\* ------------------------------------------------- the sweeper's timer
\* In this part the clock counts milliseconds and the tick comes when due.
StepsPerTick == 2      \* moments the clock shows in one sweeper period
MaxTicks == 7          \* sweeper periods a run lasts

\* 5 * 60 * 1000: the longest interval setupSessionCleanup arms
CleanupCap == 300000
\* 30 * 60 * 1000: options.sessionTimeout when the caller passes none
DefaultSessionTimeout == 1800000
\* The values of options.sessionTimeout: four minutes, and the default
SessionTimeouts == { 4 * 60 * 1000, DefaultSessionTimeout }

\* A faulty delay without the cap
CleanupInterval_Uncapped(sessionTimeout) == sessionTimeout \div 4

\* The delay setupSessionCleanup passes to setInterval:
\* Math.min(sessionTimeout / 4, 5 * 60 * 1000)
CleanupInterval(sessionTimeout) ==
  LET quarter == sessionTimeout \div 4
  IN IF quarter < CleanupCap THEN quarter ELSE CleanupCap

\* options.sessionTimeout and the interval timer armed at `time`
Schedule(sessionTimeout, time) ==
  [type |-> "timed", sessionTimeout |-> sessionTimeout,
   delay |-> CleanupInterval(sessionTimeout),
   due |-> time + CleanupInterval(sessionTimeout)]

\* The service constructed and started at time 0: the timer is armed and the
\* socket listens
SweepInit ==
  /\ schedule \in { Schedule(sessionTimeout, 0) : sessionTimeout \in SessionTimeouts }
  /\ orphans = << >>
  /\ sessions = <<>>
  /\ totalSessionsCreated = 0
  /\ totalSessionsTerminated = 0
  /\ isRunning = TRUE
  /\ server = "listening"
  /\ serverCloseCalls = 0
  /\ cleanupInterval = TRUE
  /\ allowedHosts = {Localhost}
  /\ transports = 0
  /\ tSessionId = [t \in Transports |-> 0]
  /\ tConnected = [t \in Transports |-> FALSE]
  /\ tCloseCalls = [t \in Transports |-> 0]
  /\ mcpServers = 0
  /\ tMcpServer = [t \in Transports |-> 0]
  /\ minted = {}
  /\ req = [r \in Reqs |-> Idle]
  /\ now = 0
  /\ starts = 1
  /\ unhandledRejection = FALSE
  /\ config = ValidConfig
  /\ constructed = "ok"
  /\ last = Quiet
  /\ mcpHttpEnabled = TRUE
  /\ mainPc = "none"
  /\ stdio = "none"
  /\ NoTool

\* The interval callback runs when it is due and the timer is armed again
TimedSweepTick ==
  /\ Turn
  /\ cleanupInterval
  /\ now = schedule.due
  /\ LET expiredSessions ==
           { id \in DOMAIN sessions :
               now - sessions[id].lastActivity > schedule.sessionTimeout } IN
     /\ Becomes(TerminateAll(Here, expiredSessions))
     /\ last' = Note("sweep", Cardinality(expiredSessions))
  /\ schedule' = [schedule EXCEPT !.due = @ + schedule.delay]
  /\ UNCHANGED << totalSessionsCreated, isRunning, server, serverCloseCalls,
                  cleanupInterval, allowedHosts, config, constructed, transports,
                  mcpServers, tMcpServer, tSessionId, tConnected, minted, req, now,
                  starts, mcpHttpEnabled, mainPc, stdio, toolVars, orphans >>

\* Time passes, by a part of the sweeper period or up to the moment the tick
\* is due
TimePasses ==
  /\ Turn
  /\ now < MaxTicks * schedule.delay
  /\ cleanupInterval => now < schedule.due
  /\ LET step == schedule.delay \div StepsPerTick IN
     now' = IF cleanupInterval /\ schedule.due < now + step
            THEN schedule.due ELSE now + step
  /\ UNCHANGED << sessions, totalSessionsCreated, totalSessionsTerminated, unhandledRejection, isRunning,
                  server, serverCloseCalls, cleanupInterval, allowedHosts, config, appVars, constructed,
                  transports, mcpServers, tMcpServer, tSessionId, tConnected, tCloseCalls, minted, req,
                  starts, last >>

\* One client at a time: its requests take the first slot
SweepNext ==
  \/ Post(1, <<"l", ":", "p">>, 0, TRUE)
  \/ \E sessionId \in Ids : Get(1, <<"l", ":", "p">>, sessionId)
  \/ \E ok \in BOOLEAN : ConnectSettles(1, ok)
  \/ \E outcome \in InitOutcomes : InitSettles(1, outcome)
  \/ \E outcome \in Outcomes : RoutedSettles(1, outcome)
  \/ TimedSweepTick
  \/ TimePasses
  \/ Stop
  \/ CloseCallback
  \/ EndTurn

SweepSpec == SweepInit /\ [][SweepNext]_vars

\* ------------------------------------------- construction with any config
\* Before `new HttpTransportService(config, ...)`: no field holds anything yet
ConfigInit ==
  /\ config \in Configs
  /\ constructed = "none"
  /\ sessions = << >>
  /\ totalSessionsCreated = 0
  /\ totalSessionsTerminated = 0
  /\ isRunning = FALSE
  /\ server = "none"
  /\ serverCloseCalls = 0
  /\ cleanupInterval = FALSE
  /\ allowedHosts = {Localhost}
  /\ transports = 0
  /\ tSessionId = [t \in Transports |-> 0]
  /\ tConnected = [t \in Transports |-> FALSE]
  /\ tCloseCalls = [t \in Transports |-> 0]
  /\ mcpServers = 0
  /\ tMcpServer = [t \in Transports |-> 0]
  /\ minted = {}
  /\ req = [r \in Reqs |-> Idle]
  /\ now = 0
  /\ starts = 0
  /\ unhandledRejection = FALSE
  /\ last = Quiet
  /\ NoMain

\* The constructor: validateConfig() throws, or the application is built and
\* setupSessionCleanup() arms the sweeper
Construct ==
  /\ constructed = "none"
  /\ IF ValidateConfig(config) = "ok"
     THEN constructed' = "ok" /\ cleanupInterval' = TRUE
     ELSE constructed' = "threw" /\ UNCHANGED cleanupInterval
  /\ UNCHANGED << sessions, totalSessionsCreated, totalSessionsTerminated, isRunning,
                  server, serverCloseCalls, allowedHosts, transports, mcpServers, tMcpServer, tSessionId,
                  tConnected, tCloseCalls, minted, req, now, starts,
                  unhandledRejection, config, appVars, last >>

\* start() can only be called on the object the constructor returned
StartConstructed == constructed = "ok" /\ Start

ConfigNext ==
  \/ Construct
  \/ StartConstructed
  \/ ListenCallback
  \/ ListenError
  \/ EndTurn

ConfigSpec == ConfigInit /\ [][ConfigNext]_vars

\* ------------------------------------------------------------------ main
\* parseEnvironmentConfig: the schema takes MCP_HTTP_PORT only in 1..65535
\* and throws otherwise; host and paths are any strings
ParseEnvironmentConfig(cfg) ==
  IF cfg.port \in MinPort..MaxPort THEN "ok" ELSE "threw"

\* The process before main() is called; `config` is what the environment
\* variables say and what getHttpServerConfig makes of them
MainInit ==
  /\ config \in Configs
  /\ mcpHttpEnabled \in BOOLEAN
  /\ mainPc = "none"
  /\ stdio = "none"
  /\ NoTool
  /\ PlainRun
  /\ constructed = "none"
  /\ sessions = << >>
  /\ totalSessionsCreated = 0
  /\ totalSessionsTerminated = 0
  /\ isRunning = FALSE
  /\ server = "none"
  /\ serverCloseCalls = 0
  /\ cleanupInterval = FALSE
  /\ allowedHosts = {Localhost}
  /\ transports = 0
  /\ tSessionId = [t \in Transports |-> 0]
  /\ tConnected = [t \in Transports |-> FALSE]
  /\ tCloseCalls = [t \in Transports |-> 0]
  /\ mcpServers = 0
  /\ tMcpServer = [t \in Transports |-> 0]
  /\ minted = {}
  /\ req = [r \in Reqs |-> Idle]
  /\ now = 0
  /\ starts = 0
  /\ unhandledRejection = FALSE
  /\ last = Quiet

\* main() up to its await: the environment is parsed; with HTTP enabled
\* startHttpServer constructs the service and calls start(), otherwise
\* startStdioServer connects a server to a stdio transport. An error on the
\* way ends in main's catch and process.exit(1).
Main ==
  /\ Turn
  /\ mainPc = "none"
  /\ IF ParseEnvironmentConfig(config) # "ok"
     THEN /\ mainPc' = "parse-failed"
          /\ UNCHANGED << constructed, cleanupInterval, server, starts, stdio >>
     ELSE IF mcpHttpEnabled
     THEN /\ mainPc' = "http"
          /\ IF ValidateConfig(config) = "ok"
             THEN /\ constructed' = "ok"
                  /\ cleanupInterval' = TRUE
                  /\ server' = "binding"
                  /\ starts' = starts + 1
             ELSE /\ constructed' = "threw"
                  /\ UNCHANGED << cleanupInterval, server, starts >>
          /\ UNCHANGED stdio
     ELSE /\ mainPc' = "stdio"
          /\ stdio' = "connecting"
          /\ UNCHANGED << constructed, cleanupInterval, server, starts >>
  /\ UNCHANGED << sessions, totalSessionsCreated, totalSessionsTerminated, isRunning,
                  serverCloseCalls, allowedHosts, transports, mcpServers, tMcpServer,
                  tSessionId, tConnected, tCloseCalls, minted, req, now,
                  unhandledRejection, config, last, mcpHttpEnabled, toolVars,
                  orphans, schedule >>

\* startStdioServer after `await server.connect(transport)`: connected, or
\* the rejection is rethrown into main's catch
StdioConnectSettles(ok) ==
  /\ Turn
  /\ stdio = "connecting"
  /\ stdio' = IF ok THEN "connected" ELSE "failed"
  /\ UNCHANGED << sessions, totalSessionsCreated, totalSessionsTerminated, isRunning,
                  server, serverCloseCalls, cleanupInterval, allowedHosts, transports,
                  mcpServers, tMcpServer, tSessionId, tConnected, tCloseCalls, minted,
                  req, now, starts, unhandledRejection, config, constructed, last,
                  mcpHttpEnabled, mainPc, toolVars, orphans, schedule >>

MainNext ==
  \/ Main
  \/ ListenCallback
  \/ ListenError
  \/ \E ok \in BOOLEAN : StdioConnectSettles(ok)
  \/ EndTurn

MainSpec == MainInit /\ [][MainNext]_vars

\* main() has returned without an error: the server it awaited is up
MainCompleted ==
  \/ mainPc = "http" /\ server = "listening" /\ isRunning
  \/ mainPc = "stdio" /\ stdio = "connected"

\* ------------------------------------------------------------- get_quote
\* A get_quote call with any arguments and any SERPER_API_KEY; the HTTP
\* service is not part of the run
QuoteInit ==
  /\ rawParams \in [person : Persons, topic : Topics, numberOfQuotes : QuoteCounts]
  /\ apiKey \in ApiKeys
  /\ validationResult = NotCalled
  /\ call = NotCalled
  /\ toolResult = NotCalled
  /\ NoService

\* validateQuoteParameters(rawParams), called on its own
CallValidateQuoteParameters ==
  /\ validationResult = NotCalled
  /\ call = NotCalled
  /\ toolResult = NotCalled
  /\ validationResult' = ValidateQuoteParameters(rawParams)
  /\ UNCHANGED << rawParams, apiKey, call, toolResult, serviceVars >>

\* ------------------------------------------------------- SerperService
Retries == 3
\* HTTP statuses the Serper API may answer a request with
ErrorStatuses == {400, 401, 403, 429, 500, 503}
\* How one request ends: a response with a status, with or without a body;
\* a network error (no response, a code such as ECONNRESET); an axios error
\* with neither response nor network code (a cancelled request); or an error
\* that is not an axios error, thrown on the way (an interceptor)
Outcome(kind, status, data) == [kind |-> kind, status |-> status, data |-> data]
NoOutcome == Outcome("none", 0, FALSE)
AttemptOutcomes ==
  { Outcome("response", 200, TRUE), Outcome("response", 200, FALSE),
    Outcome("network", 0, FALSE), Outcome("no-response", 0, FALSE),
    Outcome("thrown", 0, FALSE) }
    \cup { Outcome("response", status, FALSE) : status \in ErrorStatuses }
\* The request did not end in a 2xx response
Failed(outcome) == ~(outcome.kind = "response" /\ outcome.status = 200)

\* axiosRetry.isNetworkOrIdempotentRequestError for a POST, which is not an
\* idempotent method: a network error only
IsNetworkOrIdempotentRequestError(outcome) == outcome.kind = "network"

\* retryCondition of setupRetryLogic
RetryCondition(outcome) ==
  \/ IsNetworkOrIdempotentRequestError(outcome)
  \/ (IF outcome.kind = "response" THEN outcome.status >= 500 ELSE FALSE)

\* A faulty budget that allows one retry more
RetriesLeft_OneMore(retries) == retries <= Retries

\* axios-retry with `retries: 3`: retries so far are below the limit
RetriesLeft(retries) == retries < Retries

\* axios-retry decides on a failed request that carries its config; an error
\* thrown outside axios carries none and is passed on
ShouldRetry(outcome, retries) ==
  /\ Failed(outcome)
  /\ outcome.kind # "thrown"
  /\ RetriesLeft(retries)
  /\ RetryCondition(outcome)

\* What a getQuote call has come to
Call(by, pc, requests, retries, outcome, error, statusCode) ==
  [by |-> by, pc |-> pc, requests |-> requests, retries |-> retries,
   outcome |-> outcome, error |-> error, statusCode |-> statusCode]

\* The SerperService constructor: the error it throws, or "ok"
SerperServiceConstructor(key) ==
  IF Falsy(key) \/ TypeOf(key) # "string" THEN "SerperConfigurationError"
  ELSE IF Len(Trim(key.text)) = 0 THEN "SerperConfigurationError"
  ELSE "ok"

\* getQuote's parameter checks: the message of the SerperConfigurationError
\* it throws, or "ok". A numberOfQuotes that is not passed defaults to 1.
GetQuoteCheck(person, topic, numberOfQuotes) ==
  LET count == IF numberOfQuotes = JsUndefined THEN JsNumber(2) ELSE numberOfQuotes IN
  IF Falsy(person) \/ TypeOf(person) # "string"
  THEN "Person parameter is required and must be a non-empty string"
  ELSE IF Len(Trim(person.text)) = 0
  THEN "Person parameter is required and must be a non-empty string"
  ELSE IF topic # JsUndefined /\ TypeOf(topic) # "string"
  THEN "Topic parameter must be a string when provided"
  ELSE IF ~NumberIsInteger(count)
  THEN "Number of quotes parameter must be an integer between 1 and 10"
  ELSE IF count.twice < 2 * MinQuotes \/ count.twice > 2 * MaxQuotes
  THEN "Number of quotes parameter must be an integer between 1 and 10"
  ELSE "ok"

\* getQuote up to `await this.axiosInstance.post(...)`: it throws on a bad
\* parameter, or the first request goes out
GetQuote(by, person, topic, numberOfQuotes) ==
  IF GetQuoteCheck(person, topic, numberOfQuotes) # "ok"
  THEN Call(by, "threw", 0, 0, NoOutcome, "SerperConfigurationError", 0)
  ELSE Call(by, "requesting", 1, 0, NoOutcome, "none", 0)

\* A faulty catch that passes on what is not an axios error as it is
GetQuoteCatch_RethrowsOther(c, outcome) ==
  IF outcome.kind \in {"response", "network", "no-response"} /\ outcome.status # 200
  THEN [c EXCEPT !.pc = "threw", !.outcome = outcome, !.error = "SerperApiError",
                 !.statusCode = outcome.status]
  ELSE [c EXCEPT !.pc = "threw", !.outcome = outcome, !.error = "Error",
                 !.statusCode = 0]

\* getQuote's catch block: an axios error becomes a SerperApiError with the
\* status of the response, or 0 without one; anything else, the error thrown
\* for an empty body included, becomes a SerperApiError with status 0
GetQuoteCatch(c, outcome) ==
  IF outcome.kind \in {"response", "network", "no-response"} /\ outcome.status # 200
  THEN [c EXCEPT !.pc = "threw", !.outcome = outcome, !.error = "SerperApiError",
                 !.statusCode = outcome.status]
  ELSE [c EXCEPT !.pc = "threw", !.outcome = outcome, !.error = "SerperApiError",
                 !.statusCode = 0]

\* getQuote after the await: the promise of post() settled with `outcome`
GetQuoteSettles(c, outcome) ==
  IF ~Failed(outcome) /\ outcome.data
  THEN [c EXCEPT !.pc = "returned", !.outcome = outcome]
  ELSE GetQuoteCatch(c, outcome)

\* One request of a getQuote call ends: axios-retry sends it again, or the
\* promise of post() settles and getQuote returns or throws
AttemptSettles(c, outcome) ==
  IF ShouldRetry(outcome, c.retries)
  THEN [c EXCEPT !.requests = @ + 1, !.retries = @ + 1, !.outcome = outcome]
  ELSE GetQuoteSettles(c, outcome)

\* getQuote(params, numberOfQuotes), called on its own service object
CallGetQuote ==
  /\ validationResult = NotCalled
  /\ call = NotCalled
  /\ toolResult = NotCalled
  /\ call' = GetQuote("direct", rawParams.person, rawParams.topic,
                      rawParams.numberOfQuotes)
  /\ UNCHANGED << rawParams, apiKey, validationResult, toolResult, serviceVars >>

\* ---------------------------------------------- the get_quote handler
\* What the handler returns: a content result, with isError set or not
ToolContent(isError, text) == [type |-> "content", isError |-> isError, text |-> text]

\* The handler's catch block
ToolCatch(error) ==
  CASE error = "SerperConfigurationError" -> ToolContent(TRUE, "Configuration Error")
    [] error = "SerperApiError" -> ToolContent(TRUE, "API Error")
    [] OTHER -> ToolContent(TRUE, "An unexpected error occurred")

\* A faulty handler that does not look at SERPER_API_KEY
ToolGate_NoKeyCheck(validation, key) ==
  IF ~validation.success THEN "validation-error" ELSE "call"

\* The handler's two early returns before it touches the service
ToolGate(validation, key) ==
  IF ~validation.success THEN "validation-error"
  ELSE IF Falsy(key) THEN "no-api-key"
  ELSE "call"

\* The handler's arguments `{ person, topic, numberOfQuotes = 1 }`: a
\* numberOfQuotes that is undefined takes the default
ToolParams(raw) ==
  [raw EXCEPT !.numberOfQuotes = IF @ = JsUndefined THEN JsNumber(2) ELSE @]

\* The get_quote handler up to `await serperService.getQuote(...)`, or to
\* its return when it does not get that far
GetQuoteTool ==
  /\ validationResult = NotCalled
  /\ call = NotCalled
  /\ toolResult = NotCalled
  /\ LET params == ToolParams(rawParams)
         validation == ValidateQuoteParameters(params)
         gate == ToolGate(validation, apiKey)
     IN /\ validationResult' = validation
        /\ CASE gate = "validation-error" ->
                  /\ toolResult' = ToolContent(TRUE, "Validation Error")
                  /\ UNCHANGED call
             [] gate = "no-api-key" ->
                  /\ toolResult' = ToolContent(TRUE, "Error: SERPER_API_KEY")
                  /\ UNCHANGED call
             [] OTHER ->
                  IF SerperServiceConstructor(apiKey) # "ok"
                  THEN /\ call' = Call("tool", "construct-threw", 0, 0, NoOutcome,
                                       SerperServiceConstructor(apiKey), 0)
                       /\ toolResult' = ToolCatch(SerperServiceConstructor(apiKey))
                  ELSE LET data == validation.data
                           c == GetQuote("tool", data.person, data.topic,
                                         data.numberOfQuotes)
                       IN /\ call' = c
                          /\ toolResult' = IF c.pc = "threw" THEN ToolCatch(c.error)
                                           ELSE NotCalled
  /\ UNCHANGED << rawParams, apiKey, serviceVars >>

\* One request to the Serper API ends with `outcome`; when that settles the
\* getQuote call of the handler, the handler returns in the same turn
RequestSettles(outcome) ==
  /\ call # NotCalled
  /\ call.pc = "requesting"
  /\ LET c == AttemptSettles(call, outcome) IN
     /\ call' = c
     /\ toolResult' =
          IF c.by = "tool" /\ c.pc = "returned" THEN ToolContent(FALSE, "quote")
          ELSE IF c.by = "tool" /\ c.pc = "threw" THEN ToolCatch(c.error)
          ELSE toolResult
  /\ UNCHANGED << rawParams, apiKey, validationResult, serviceVars >>

QuoteNext ==
  \/ CallValidateQuoteParameters
  \/ CallGetQuote
  \/ GetQuoteTool
  \/ \E outcome \in AttemptOutcomes : RequestSettles(outcome)

QuoteSpec == QuoteInit /\ [][QuoteNext]_vars

\* ------------------------------------------------------------ properties
\* What the turn that takes a request in may report
RequestOps == {"host-rejected", "session-not-found", "routed", "creating", "route-error"}
\* ... when the request got past the security middleware into its route handler
RouterOps == RequestOps \ {"host-rejected"}
\* The turn that is ending took a request in
TakesRequest == last = Quiet /\ last'.op \in RequestOps
\* ... and its route handler ran
EntersRouter == last = Quiet /\ last'.op \in RouterOps

Active == DOMAIN sessions
Removed == minted \ DOMAIN sessions

\* C1: a POST, GET or DELETE on /mcp that bears a session id which is not in
\* the registry is answered 400 by its route handler and creates nothing: the
\* registry, totalSessionsCreated, the transports constructed and the requests
\* in flight are what they were. This holds for a POST whose body is an
\* initialization request too.
C1_UnknownSessionIdRejected ==
  [][ (EntersRouter /\ last'.sid # 0 /\ last'.sid \notin Active)
        => /\ last'.op = "session-not-found"
           /\ last'.status = 400
           /\ sessions' = sessions
           /\ totalSessionsCreated' = totalSessionsCreated
           /\ transports' = transports
           /\ req' = req ]_vars

\* A request bearing an id the registry does not hold was answered 400 while
\* another session was live
C1_Witness ==
  /\ last.op = "session-not-found" /\ last.status = 400
  /\ last.sid # 0 /\ last.sid \notin Active
  /\ Active # {}

\* C2: when the transport created for an initialization POST without a
\* session id accepts it, the id it mints was never used by this service, the
\* record stored under that id holds the transport the same request was
\* handed to, and the registry has grown by exactly that one id.
C2_InitializationMintsFreshSession ==
  [][ (last = Quiet /\ last'.op = "session-initialized")
        => LET id == last'.sid IN
           /\ id \notin minted
           /\ id \notin Active
           /\ last'.status = 200
           /\ DOMAIN sessions' = Active \cup {id}
           /\ Cardinality(DOMAIN sessions') = Cardinality(Active) + 1
           /\ totalSessionsCreated' = totalSessionsCreated + 1
           /\ \A other \in Active : sessions'[other] = sessions[other]
           /\ \E r \in Reqs :
                /\ req[r].pc = "handling" /\ req[r].method = "POST" /\ req[r].sid = 0
                /\ req'[r] = Idle
                /\ sessions'[id].transport = req[r].t
                /\ tSessionId[req[r].t] = 0
                /\ tSessionId'[req[r].t] = id ]_vars

\* A session was minted after an earlier one had been removed, and its id
\* differs from every id used before
C2_Witness ==
  /\ last.op = "session-initialized"
  /\ last.sid \in Active
  /\ Removed # {}
  /\ totalSessionsCreated = 2

\* What C3 and C4 call allowed: the header is there and the host name before
\* the port is in the allow-list, or the allow-list holds "*"
HostAllowed(host) ==
  /\ host # Undefined
  /\ (SplitFirst(host) \in allowedHosts \/ Wildcard \in allowedHosts)

\* C3: a request whose Host header is absent, or whose host name is not in
\* the allow-list, is answered 4xx by the security middleware before any route
\* handler runs; the registry (with every lastActivity) and both counters are
\* what they were, and no transport is constructed.
C3_DisallowedHostTouchesNothing ==
  [][ (TakesRequest /\ ~HostAllowed(last'.host))
        => /\ last'.op = "host-rejected"
           /\ last'.status \in {400, 403}
           /\ sessions' = sessions
           /\ totalSessionsCreated' = totalSessionsCreated
           /\ totalSessionsTerminated' = totalSessionsTerminated
           /\ transports' = transports
           /\ req' = req ]_vars

\* C4: the middleware answers 400 when the Host header is missing; otherwise
\* it strips the port and lets the request pass exactly when the bare host
\* name is in the allow-list or the allow-list holds "*", and answers 403 in
\* every other case.
C4_HostDecision ==
  [][ TakesRequest
        => LET host == last'.host IN
           IF host = Undefined
           THEN last'.op = "host-rejected" /\ last'.status = 400
           ELSE IF SplitFirst(host) \in allowedHosts \/ Wildcard \in allowedHosts
           THEN last'.op # "host-rejected"
           ELSE last'.op = "host-rejected" /\ last'.status = 403 ]_vars

\* C5: after a sweeper tick, no session that had been idle for longer than the
\* timeout when the tick began is in the registry: all of them are removed,
\* not only the first.
C5_SweepRemovesEveryExpired ==
  [][ (last = Quiet /\ last'.op = "sweep")
        => \A id \in Active :
             (now - sessions[id].lastActivity > SessionTimeout)
               => id \notin DOMAIN sessions' ]_vars

\* One tick found two sessions expired and removed both
C5_Witness ==
  /\ last.op = "sweep" /\ last.n = 2
  /\ Active = {}
  /\ Cardinality(Removed) = 2

\* C6: on every removal path (DELETE, sweeper, the transport's own close,
\* stop) the session's transport has close() run exactly once, also when
\* close() fires the onclose hook and the hook calls terminateSession again.
C6_TransportClosedExactlyOnce ==
  \A t \in Transports :
    /\ tCloseCalls[t] <= 1
    /\ (tSessionId[t] \in Removed => tCloseCalls[t] = 1)

\* C7: once a session has been removed, its id is never in the registry
\* again, and every later POST, GET or DELETE that bears the id and reaches
\* its route handler is answered 400 and changes nothing.
C7_RemovedSessionStaysRemoved ==
  [][ /\ \A id \in Removed : id \notin DOMAIN sessions'
      /\ (EntersRouter /\ last'.sid \in Removed)
           => /\ last'.op = "session-not-found"
              /\ last'.status = 400
              /\ sessions' = sessions
              /\ transports' = transports
              /\ req' = req ]_vars

\* A request bearing the id of a removed session was answered 400
C7_Witness ==
  /\ last.op = "session-not-found" /\ last.status = 400
  /\ last.sid \in Removed
  /\ totalSessionsTerminated >= 1

\* The lifecycle state of a session id: active while the registry maps it,
\* terminated once it was minted and is mapped no more
Lifecycle(id, reg, used) ==
  IF id \in DOMAIN reg THEN "active"
  ELSE IF id \in used THEN "terminated"
  ELSE "uninitialized"

\* C8: a session id moves only uninitialized -> active -> terminated. It
\* becomes active in the turn that fires the session-initialized callback and
\* in no other, stays mapped to the one record it was given (same transport,
\* same creation time) while it is active, leaves the registry only in a turn
\* that removes sessions, and is never mapped again afterwards.
C8_ForwardOnlyLifecycle ==
  [][ \A id \in Ids :
        LET before == Lifecycle(id, sessions, minted)
            after == Lifecycle(id, sessions', minted')
        IN /\ before = "uninitialized" => after \in {"uninitialized", "active"}
           /\ before = "active" => after \in {"active", "terminated"}
           /\ before = "terminated" => after = "terminated"
           /\ (before # "active" /\ after = "active")
                => last'.op = "session-initialized" /\ last'.sid = id
           /\ (before = "active" /\ after = "active")
                => /\ sessions'[id].transport = sessions[id].transport
                   /\ sessions'[id].createdAt = sessions[id].createdAt
           /\ (before = "active" /\ after = "terminated")
                => \/ last'.op \in {"session-deleted", "sweep", "transport-closed", "stop"}
                   \/ last'.op = "handler-error" /\ last'.sid = id
           /\ \A other \in DOMAIN sessions' :
                (other # id /\ after = "active")
                  => sessions'[other].transport # sessions'[id].transport ]_vars

\* One id is terminated, another is active and a third was never minted
C8_Witness ==
  \E a, b, c \in Ids :
    /\ Lifecycle(a, sessions, minted) = "terminated"
    /\ Lifecycle(b, sessions, minted) = "active"
    /\ Lifecycle(c, sessions, minted) = "uninitialized"

\* C9: a record enters the registry only in the turn that fires the
\* session-initialized callback, and the transport it holds had been
\* constructed and connected before; so a request is never handed to a
\* transport that is not connected.
C9_OnlyConnectedTransportsRegistered ==
  [][ /\ \A id \in DOMAIN sessions' \ Active :
           /\ last'.op = "session-initialized" /\ last'.sid = id
           /\ sessions'[id].transport \in 1..transports
           /\ tConnected[sessions'[id].transport]
      /\ \A id \in DOMAIN sessions' : tConnected'[sessions'[id].transport]
      /\ \A r \in Reqs : req'[r].pc = "handling" => tConnected'[req'[r].t] ]_vars

\* A session is registered while the transport of another initialization
\* request is constructed but not connected yet
C9_Witness ==
  /\ Active # {}
  /\ \E r \in Reqs : req[r].pc = "connecting" /\ ~tConnected[req[r].t]
  /\ \A id \in Active : tConnected[sessions[id].transport]

\* C10: a call of stop() that follows an earlier one, also one made before
\* the socket's close callback of the earlier call has fired, raises no
\* error, closes no transport that is already closed and does not ask the
\* listening socket to close again.
C10_SecondStopDoesNothing ==
  [][ (last = Quiet /\ last'.op \in {"stop", "stop-not-running"} /\ serverCloseCalls >= 1)
        => /\ serverCloseCalls' = serverCloseCalls
           /\ \A t \in Transports : tCloseCalls[t] >= 1 => tCloseCalls'[t] = tCloseCalls[t] ]_vars

\* C11: stop() on a service that is not running, because it was never
\* started or because an earlier stop has completed, returns without error
\* and changes nothing: the registry, both counters, isRunning, the listening
\* socket, the transports and the sweeper timer are what they were.
C11_StopWhenNotRunningChangesNothing ==
  [][ (last = Quiet /\ last'.op \in {"stop", "stop-not-running"}
         /\ server \in {"none", "closed"})
        => /\ last'.op = "stop-not-running"
           /\ UNCHANGED << sessions, totalSessionsCreated, totalSessionsTerminated,
                           isRunning, server, serverCloseCalls, tCloseCalls,
                           cleanupInterval >> ]_vars

\* stop() returned at its guard after an earlier stop had completed, on a
\* service that has created a session
C11_Witness ==
  /\ last.op = "stop-not-running"
  /\ server = "closed" /\ ~isRunning
  /\ totalSessionsCreated >= 1

\* C12: a stop() that passes its guard cancels the sweeper, closes the
\* transport of every session in the registry and removes the record, and
\* then asks the listening socket to close, without resolving yet; when the
\* socket's close callback fires and stop() resolves, the registry is empty
\* and the service is not running.
C12_StopDrainsBeforeItResolves ==
  [][ /\ (last = Quiet /\ last'.op = "stop")
           => /\ ~cleanupInterval'
              /\ sessions' = << >>
              /\ \A id \in Active : tCloseCalls'[sessions[id].transport] >= 1
              /\ server' = "closing"
              /\ isRunning' = isRunning
      /\ (server = "closing" /\ server' = "closed")
           => /\ sessions' = << >>
              /\ ~isRunning'
              /\ ~cleanupInterval' ]_vars

\* C13: in stop(), a failure while one session's transport is closed stays
\* inside stop's loop: it is caught there, so no rejection is left unhandled,
\* close() is still called on the transport of every session in the registry,
\* and the listening socket is still asked to close.
C13_StopIsolatesCloseFailure ==
  [][ (last = Quiet /\ last'.op = "stop")
        => /\ \A id \in Active :
                tCloseCalls'[sessions[id].transport] > tCloseCalls[sessions[id].transport]
           /\ server' = "closing"
           /\ serverCloseCalls' = serverCloseCalls + 1
           /\ unhandledRejection' = unhandledRejection ]_vars

\* C14: a DELETE that bears the id of a session in the registry is handed to
\* that session's transport with the record still in place, and when the
\* DELETE handler has finished the session is not in the registry and close()
\* has run on its transport.
C14_DeleteHandsOverThenRemoves ==
  [][ \A r \in Reqs :
        /\ (req[r].pc = "idle" /\ req'[r].method = "DELETE")
             => /\ req'[r].pc = "handling"
                /\ sessions' = sessions
                /\ req'[r].sid \in Active
                /\ req'[r].t = sessions[req'[r].sid].transport
        /\ (req[r].method = "DELETE" /\ req[r].pc = "handling" /\ req'[r].pc = "idle")
             => /\ req[r].sid \notin DOMAIN sessions'
                /\ tCloseCalls'[req[r].t] >= 1 ]_vars

\* A turn of a route handler: a request is taken in, or a request in flight
\* resumes after its await
HandlerTurn == last = Quiet /\ (last'.op \in RequestOps \/ req' # req)

\* C15: every request on /mcp gets a response: one that is answered when it
\* is taken in has a 4xx or 500 status, one that was handed to a transport is
\* answered by the time its handler returns, with 500 when the factory,
\* connect, the transport or the termination failed; and no exception or
\* rejected promise raised in a handler's turn is left unhandled.
C15_EveryRequestAnsweredNothingEscapes ==
  [][ /\ (TakesRequest /\ req' = req) => last'.status \in {400, 403, 500}
      /\ \A r \in Reqs :
           (req[r].pc # "idle" /\ req'[r].pc = "idle") => last'.status \in {200, 400, 500}
      /\ HandlerTurn => unhandledRejection' = unhandledRejection ]_vars

\* C16: a request that is answered with an error (rejected by the security
\* middleware, rejected for its session id, or failed with an internal
\* exception) leaves every session other than the one it bears untouched:
\* the other session stays in the registry with the same transport, createdAt
\* and lastActivity.
C16_ErrorsLeaveOtherSessionsAlone ==
  [][ (HandlerTurn /\ last'.status \in {400, 403, 500})
        => \A T \in Active \ {last'.sid} :
             /\ T \in DOMAIN sessions'
             /\ sessions'[T] = sessions[T] ]_vars

\* A request for one session failed with 500 and that session is gone, while
\* another session is live
C16_Witness ==
  /\ last.op = "handler-error" /\ last.status = 500
  /\ last.sid \in Removed
  /\ Active # {}

\* What C17 calls an invalid configuration
InvalidConfig(cfg) ==
  \/ cfg.port \notin MinPort..MaxPort
  \/ cfg.host = <<>>
  \/ /\ cfg.httpsEnabled
     /\ \/ cfg.certPath = <<>> \/ cfg.keyPath = <<>>
        \/ ~cfg.certFile.exists \/ ~cfg.keyFile.exists
        \/ ~cfg.certFile.readable \/ ~cfg.keyFile.readable
        \/ CertMarker \notin cfg.certFile.text
        \/ ~(KeyMarkers \subseteq cfg.keyFile.text)

\* C17: the constructor throws for every invalid configuration (port outside
\* 1..65535, empty host, or HTTPS enabled with a missing path, a missing or
\* unreadable file, or a file without its markers), and it throws before
\* anything is bound or armed; so a service that start() has given a socket
\* never has an invalid configuration.
C17_InvalidConfigThrowsAtConstruction ==
  [][ /\ (constructed = "none" /\ constructed' # "none" /\ InvalidConfig(config))
           => /\ constructed' = "threw"
              /\ server' = "none" /\ starts' = 0
              /\ ~isRunning' /\ ~cleanupInterval'
      /\ (server' # "none" \/ starts' > 0)
           => (constructed' = "ok" /\ ~InvalidConfig(config')) ]_vars

\* Scenario D: HTTPS enabled, both paths given, the certificate file does not
\* exist; the constructor threw and no socket exists
C17_Witness ==
  /\ constructed = "threw"
  /\ config.port = MinPort /\ config.host # <<>>
  /\ config.httpsEnabled /\ config.certPath # <<>> /\ config.keyPath # <<>>
  /\ ~config.certFile.exists
  /\ server = "none"

\* C18: when the transport of a session closes on its own, outside the DELETE
\* path, the onclose hook removes that session from the registry in the same
\* turn; so between turns no record in the registry holds a transport on
\* which close() has run.
C18_NoRecordOfClosedTransport ==
  [][ /\ (last = Quiet /\ last'.op = "transport-closed")
           => /\ last'.sid \in Active
              /\ last'.sid \notin DOMAIN sessions'
      /\ \A id \in DOMAIN sessions' : tCloseCalls'[sessions'[id].transport] = 0 ]_vars

\* A transport closed on its own and its session is gone, while another
\* session with an open transport is still registered
C18_Witness ==
  /\ last.op = "transport-closed"
  /\ last.sid \in Removed
  /\ \E t \in Transports : tSessionId[t] = last.sid /\ tCloseCalls[t] >= 1
  /\ Active # {}

\* The request was rejected by its route handler with 400 and nothing changed
Rejected400 ==
  /\ last'.op = "session-not-found" /\ last'.status = 400
  /\ sessions' = sessions
  /\ totalSessionsCreated' = totalSessionsCreated
  /\ transports' = transports
  /\ req' = req

\* C19: a POST without a session id whose body is not an initialization
\* request, and a GET or a DELETE without a session id, are answered 400 by
\* their route handler and create nothing; a transport is constructed only in
\* a turn that takes in a POST without a session id and with an
\* initialization body.
C19_OnlyInitializationPostCreates ==
  [][ /\ (EntersRouter /\ last'.sid = 0)
           => \A r \in Reqs, host \in HostHeaders :
                /\ Post(r, host, 0, FALSE) => Rejected400
                /\ Get(r, host, 0) => Rejected400
                /\ Delete(r, host, 0) => Rejected400
      /\ (transports' # transports)
           => \E r \in Reqs, host \in HostHeaders : Post(r, host, 0, TRUE) ]_vars

\* A request without a session id was answered 400 while a session was live
C19_Witness ==
  /\ last.op = "session-not-found" /\ last.status = 400
  /\ last.sid = 0
  /\ Active # {}
  /\ transports = totalSessionsCreated

\* lastActivity of a session that stays in the registry does not decrease,
\* and is never ahead of the clock
LastActivityMonotonic ==
  /\ \A id \in Active \cap DOMAIN sessions' :
       sessions'[id].lastActivity >= sessions[id].lastActivity
  /\ \A id \in DOMAIN sessions' : sessions'[id].lastActivity <= now'

\* C20 as stated: every POST, GET or DELETE routed to an existing session
\* sets that session's lastActivity to the time of the request in the turn
\* that hands it to the transport, and lastActivity never moves backwards.
C20_EveryRoutedRequestRefreshes ==
  [][ /\ (last = Quiet /\ last'.op = "routed")
           => sessions'[last'.sid].lastActivity = now
      /\ LastActivityMonotonic ]_vars

\* C20 as amended: every POST or GET routed to an existing session sets that
\* session's lastActivity to the time of the request in the turn that hands
\* it to the transport; a DELETE routed to an existing session leaves the
\* record as it was; and lastActivity never moves backwards.
C20_PostAndGetRefresh ==
  [][ /\ (last = Quiet /\ last'.op = "routed")
           => \E r \in Reqs :
                /\ req[r].pc = "idle" /\ req'[r].pc = "handling"
                /\ req'[r].sid = last'.sid
                /\ req'[r].method \in {"POST", "GET"}
                     => sessions'[last'.sid] =
                          [sessions[last'.sid] EXCEPT !.lastActivity = now]
                /\ req'[r].method = "DELETE"
                     => sessions'[last'.sid] = sessions[last'.sid]
      /\ LastActivityMonotonic ]_vars

\* A GET was routed to a session created earlier and moved its lastActivity
\* forward to the time of the request
C20_Witness ==
  /\ last.op = "routed"
  /\ \E r \in Reqs : req[r].pc = "handling" /\ req[r].method = "GET" /\ req[r].sid = last.sid
  /\ sessions[last.sid].lastActivity = now
  /\ sessions[last.sid].createdAt < now

\* C21: totalSessionsCreated and totalSessionsTerminated never decrease,
\* whatever the turn (a request, a sweeper tick, a transport's close, start,
\* stop), and totalSessionsCreated grows by exactly one in a turn that fires
\* the session-initialized callback and stays as it is in every other turn.
C21_CountersNeverDecrease ==
  [][ /\ totalSessionsCreated' >= totalSessionsCreated
      /\ totalSessionsTerminated' >= totalSessionsTerminated
      /\ totalSessionsCreated' =
           totalSessionsCreated
             + (IF last = Quiet /\ last'.op = "session-initialized" THEN 1 ELSE 0) ]_vars

\* stop() closed a live session after two sessions had been created and one
\* of them had already been terminated
C21_Witness ==
  /\ last.op = "stop" /\ last.n = 1
  /\ totalSessionsCreated = 2
  /\ totalSessionsTerminated >= 2

\* C22: a sweeper tick runs in a turn of its own, in which no request moves,
\* and it never evicts a session while a request for that session is still
\* being handled by the session's transport: after the tick the session of
\* every request in flight is still in the registry and its transport has not
\* been closed.
C22_SweepSparesSessionsInFlight ==
  [][ (last = Quiet /\ last'.op = "sweep")
        => /\ req' = req
           /\ \A r \in Reqs :
                (req[r].pc = "handling" /\ req[r].sid \in Active)
                  => /\ req[r].sid \in DOMAIN sessions'
                     /\ tCloseCalls'[req[r].t] = 0 ]_vars

\* C23: each call of the transport factory builds one new protocol engine and
\* one new transport and wires them to each other: the engine is one that no
\* earlier transport was given. In every state no two session records hold
\* the same transport or transports wired to the same engine, and a session
\* that stays in the registry keeps its transport, which keeps its engine.
C23_OneEngineAndTransportPerSession ==
  [][ /\ (transports' # transports)
           => /\ transports' = transports + 1
              /\ mcpServers' = mcpServers + 1
              /\ tMcpServer'[transports'] # 0
              /\ \A t \in 1..transports : tMcpServer[t] # tMcpServer'[transports']
              /\ \A t \in 1..transports : tMcpServer'[t] = tMcpServer[t]
      /\ \A a, b \in DOMAIN sessions' :
           a # b => /\ sessions'[a].transport # sessions'[b].transport
                    /\ tMcpServer'[sessions'[a].transport]
                         # tMcpServer'[sessions'[b].transport]
      /\ \A id \in Active \cap DOMAIN sessions' :
           /\ sessions'[id].transport = sessions[id].transport
           /\ tMcpServer'[sessions'[id].transport] = tMcpServer[sessions[id].transport]
      /\ \A id \in DOMAIN sessions' : tMcpServer'[sessions'[id].transport] # 0 ]_vars

\* Two sessions are registered, each with a transport and an engine of its own
C23_Witness ==
  \E a, b \in Active :
    /\ a # b
    /\ sessions[a].transport # sessions[b].transport
    /\ tMcpServer[sessions[a].transport] # 0
    /\ tMcpServer[sessions[b].transport] # 0
    /\ tMcpServer[sessions[a].transport] # tMcpServer[sessions[b].transport]
    /\ mcpServers = 2

\* C24: stdio is always started, and with MCP_HTTP_ENABLED true the HTTP
\* transport is started in addition to it: when main() has completed the
\* stdio transport is connected, and if HTTP is enabled the HTTP listener is
\* running as well.
C24_BothTransportsRun ==
  MainCompleted
    => /\ stdio = "connected"
       /\ mcpHttpEnabled => (server = "listening" /\ isRunning)

\* What C28 and C29 call a valid person, topic and numberOfQuotes
NonBlank(text) == \E i \in 1..Len(text) : text[i] # " "
PersonOk(person) == person.type = "string" /\ NonBlank(person.text)
TopicOk(topic) == topic.type \in {"null", "undefined", "string"}
NumberOfQuotesOk(numberOfQuotes) ==
  /\ numberOfQuotes.type = "number"
  /\ \E k \in MinQuotes..MaxQuotes : numberOfQuotes.twice = 2 * k
\* `inner` is `text` without the blanks at its two ends
TrimmedFrom(inner, text) ==
  \E i, j \in 1..Len(text) :
    /\ inner = SubSeq(text, i, j)
    /\ text[i] # " " /\ text[j] # " "
    /\ \A k \in 1..Len(text) : (k < i \/ k > j) => text[k] = " "

\* What validateQuoteParameters was called with: the raw parameters when it
\* was called on its own, the handler's arguments when the handler called it
ValidatedParams ==
  IF call = NotCalled /\ toolResult = NotCalled THEN rawParams
  ELSE ToolParams(rawParams)

\* C28: validateQuoteParameters returns success exactly when person is a
\* string that is not blank, topic is null, undefined or a string, and
\* numberOfQuotes is an integer from 1 to 10. On success data.person is the
\* person without the blanks at its ends, data.topic is the topic without
\* them, or undefined for a null, missing or blank topic, and
\* data.numberOfQuotes is the number that was passed.
C28_ValidationAcceptsExactlyTheValid ==
  validationResult # NotCalled
    => /\ validationResult.success
            <=> /\ PersonOk(ValidatedParams.person)
                /\ TopicOk(ValidatedParams.topic)
                /\ NumberOfQuotesOk(ValidatedParams.numberOfQuotes)
       /\ validationResult.success
            => LET data == validationResult.data IN
               /\ data.person.type = "string"
               /\ TrimmedFrom(data.person.text, ValidatedParams.person.text)
               /\ IF ValidatedParams.topic.type = "string" /\ NonBlank(ValidatedParams.topic.text)
                  THEN /\ data.topic.type = "string"
                       /\ TrimmedFrom(data.topic.text, ValidatedParams.topic.text)
                  ELSE data.topic = JsUndefined
               /\ data.numberOfQuotes = ValidatedParams.numberOfQuotes

\* Person " a " with topic "a " and 10 quotes was accepted and both strings
\* came back trimmed
C28_Witness ==
  /\ validationResult # NotCalled
  /\ validationResult.success
  /\ ValidatedParams.person = JsString(<<" ", "a", " ">>)
  /\ ValidatedParams.topic = JsString(<<"a", " ">>)
  /\ validationResult.data.person = JsString(<<"a">>)
  /\ validationResult.data.topic = JsString(<<"a">>)
  /\ validationResult.data.numberOfQuotes = JsNumber(2 * MaxQuotes)

\* The messages validateQuoteParameters has for each parameter
PersonMessages ==
  { "Person parameter is required", "Person parameter must be a string",
    "Person parameter cannot be empty" }
TopicMessages == { "Topic parameter must be a string when provided" }
NumberOfQuotesMessages ==
  { "Number of quotes parameter is required",
    "Number of quotes parameter must be a number",
    "Number of quotes parameter must be an integer",
    "Number of quotes parameter must be between 1 and 10" }
\* The messages expected for `raw`: one set per invalid parameter, in the
\* order person, topic, numberOfQuotes
ExpectedMessages(raw) ==
  (IF PersonOk(raw.person) THEN << >> ELSE <<PersonMessages>>)
    \o (IF TopicOk(raw.topic) THEN << >> ELSE <<TopicMessages>>)
    \o (IF NumberOfQuotesOk(raw.numberOfQuotes) THEN << >> ELSE <<NumberOfQuotesMessages>>)

\* C29: when validation fails, the errors list holds exactly one message for
\* each of person, topic and numberOfQuotes that is invalid, in that order,
\* and no message for a parameter that is valid.
C29_AllErrorsReportedInOrder ==
  (validationResult # NotCalled /\ ~validationResult.success)
    => LET expected == ExpectedMessages(ValidatedParams)
           errors == validationResult.errors
       IN /\ Len(errors) = Len(expected)
          /\ \A i \in 1..Len(errors) : errors[i] \in expected[i]

\* All three parameters were invalid and three messages came back
C29_Witness ==
  /\ validationResult # NotCalled
  /\ ~validationResult.success
  /\ Len(validationResult.errors) = 3
  /\ ~PersonOk(ValidatedParams.person)
  /\ ~TopicOk(ValidatedParams.topic)
  /\ ~NumberOfQuotesOk(ValidatedParams.numberOfQuotes)

\* The failures C25 says are retried: a network error, a 5xx response and a
\* 429 response
TransientFailure(outcome) ==
  \/ outcome.kind = "network"
  \/ outcome.kind = "response" /\ (outcome.status >= 500 \/ outcome.status = 429)

\* A request of the call in progress has ended in a failure
RequestFailed ==
  /\ call # NotCalled
  /\ call.pc = "requesting"
  /\ call' # call
  /\ Failed(call'.outcome)
\* ... and it was sent again
Retried == call'.pc = "requesting" /\ call'.requests = call.requests + 1

\* C25: a failed request to the Serper API is sent again, while retries are
\* left, exactly when it failed with a network error, a 5xx response or a 429
\* response; a request that failed with 400, 401 or 403 is never sent again.
C25_RetriedExactlyWhenTransient ==
  [][ (RequestFailed /\ call.retries < Retries)
        => (Retried <=> TransientFailure(call'.outcome)) ]_vars

\* C26: one getQuote call sends at most 4 requests, the first and at most 3
\* retries, and a request that fails when the 3 retries are used up is not
\* sent again: the call ends with a SerperApiError.
C26_AtMostFourRequests ==
  [][ /\ call' # NotCalled
           => /\ call'.requests <= Retries + 1
              /\ call'.retries <= Retries
              /\ call'.requests <= call'.retries + 1
      /\ (RequestFailed /\ call.retries = Retries)
           => /\ ~Retried
              /\ call'.requests = call.requests
              /\ call'.pc = "threw"
              /\ call'.error = "SerperApiError" ]_vars

\* The handler's getQuote call sent four requests, the last one failed with
\* 503 as well, and the handler returned an API error
C26_Witness ==
  /\ call # NotCalled
  /\ call.by = "tool"
  /\ call.requests = Retries + 1 /\ call.retries = Retries
  /\ call.outcome = Outcome("response", 503, FALSE)
  /\ call.pc = "threw" /\ call.error = "SerperApiError"
  /\ toolResult = ToolContent(TRUE, "API Error")

\* The handler has finished
ToolReturned == toolResult # NotCalled
\* The handler has reached the service
ToolUsesService == call # NotCalled /\ call.by = "tool"

\* C27: the get_quote handler never throws: whatever it ends with is a
\* content result, with isError true when validation failed, when
\* SERPER_API_KEY is not set, and when the service raised a
\* SerperConfigurationError, a SerperApiError or any other error. The service
\* is constructed and called only after validation succeeded with an API key
\* present; when either is missing no SerperService exists and no request is
\* sent.
C27_HandlerReturnsContentAndGuardsService ==
  /\ ToolReturned
       => /\ toolResult.type = "content"
          /\ ~validationResult.success => (toolResult.isError /\ call = NotCalled)
          /\ Falsy(apiKey) => (toolResult.isError /\ call = NotCalled)
          /\ (call # NotCalled /\ call.error # "none") => toolResult.isError
          /\ toolResult.isError
               <=> \/ ~validationResult.success
                   \/ Falsy(apiKey)
                   \/ (call # NotCalled /\ call.error # "none")
  /\ ToolUsesService
       => /\ validationResult # NotCalled
          /\ validationResult.success
          /\ ~Falsy(apiKey)
          /\ call.pc \in {"returned", "threw", "construct-threw"} => ToolReturned
  /\ \A error \in {"SerperConfigurationError", "SerperApiError", "Error", "TypeError"} :
       /\ ToolCatch(error).type = "content"
       /\ ToolCatch(error).isError

\* Valid arguments but no SERPER_API_KEY: the handler returned an error
\* result and the service was never touched
C27_Witness ==
  /\ ToolReturned
  /\ validationResult # NotCalled /\ validationResult.success
  /\ apiKey = JsUndefined
  /\ toolResult = ToolContent(TRUE, "Error: SERPER_API_KEY")
  /\ call = NotCalled

\* What C30 calls bad parameters of getQuote: an empty or non-string person,
\* a topic that is given and is not a string, a numberOfQuotes that is given
\* and is not an integer from 1 to 10
BadGetQuoteParams(raw) ==
  \/ raw.person.type # "string"
  \/ raw.person.text = << >>
  \/ raw.topic.type \notin {"string", "undefined"}
  \/ (raw.numberOfQuotes.type # "undefined" /\ ~NumberOfQuotesOk(raw.numberOfQuotes))

\* C30: getQuote checks its parameters before any request: with bad
\* parameters it throws a SerperConfigurationError and has sent nothing, and
\* it throws that error in no other situation. Once a request is out, the
\* call returns only for a 2xx response with a body; every other end (an
\* error response, a network error, an axios error without response, an
\* empty body, any other error) is a SerperApiError.
C30_ChecksFirstThenOnlyApiErrors ==
  call # NotCalled
    => /\ (call.by = "direct" /\ BadGetQuoteParams(rawParams))
            => /\ call.pc = "threw"
               /\ call.error = "SerperConfigurationError"
               /\ call.requests = 0
       /\ call.error = "SerperConfigurationError" => call.requests = 0
       /\ (call.requests >= 1 /\ call.pc # "requesting")
            => IF ~Failed(call.outcome) /\ call.outcome.data
               THEN call.pc = "returned" /\ call.error = "none"
               ELSE call.pc = "threw" /\ call.error = "SerperApiError"

\* getQuote, called on its own with good parameters, got a 200 response
\* without a body and threw a SerperApiError
C30_Witness ==
  /\ call # NotCalled
  /\ call.by = "direct"
  /\ ~BadGetQuoteParams(rawParams)
  /\ call.requests = 1
  /\ call.outcome = Outcome("response", 200, FALSE)
  /\ call.pc = "threw" /\ call.error = "SerperApiError"

\* C32: a sweeper tick leaves every session alone whose idle time, now minus
\* lastActivity, is at most the timeout: after the tick it is still in the
\* registry, its record is the same and its transport has not been closed.
C32_SweepKeepsSessionsWithinTimeout ==
  [][last'.op = "sweep"
       => \A id \in DOMAIN sessions :
            now - sessions[id].lastActivity <= SessionTimeout
              => /\ id \in DOMAIN sessions'
                 /\ sessions'[id] = sessions[id]
                 /\ tCloseCalls'[sessions[id].transport]
                      = tCloseCalls[sessions[id].transport]]_vars

\* A tick removed a session and kept one that was idle for exactly the timeout
C32_Witness ==
  /\ last.op = "sweep"
  /\ last.n >= 1
  /\ \E id \in DOMAIN sessions :
       /\ now - sessions[id].lastActivity = SessionTimeout
       /\ tCloseCalls[sessions[id].transport] = 0

\* C33: in every state totalSessionsTerminated is at most totalSessionsCreated
\* and the registry holds exactly totalSessionsCreated minus
\* totalSessionsTerminated sessions: each session is counted as terminated
\* once, whichever of DELETE, sweeper tick, onclose hook and stop removes it.
C33_ActiveIsCreatedMinusTerminated ==
  /\ totalSessionsTerminated <= totalSessionsCreated
  /\ Cardinality(DOMAIN sessions) = totalSessionsCreated - totalSessionsTerminated

\* Transport t is the transport of a record in the registry
Registered(t) == \E id \in DOMAIN sessions : sessions[id].transport = t

\* C35: a transport createNewSession has connected is in the registry or
\* closed once the POST that created it is over: when that POST fails or the
\* transport rejects it before the session-initialized callback fires, no
\* connected transport stays behind that is neither registered nor closed.
C35_NoConnectedTransportLeftBehind ==
  \A t \in Transports :
    (t <= transports /\ tConnected[t]
       /\ ~\E r \in Reqs : req[r].pc # "idle" /\ req[r].t = t)
      => (Registered(t) \/ tCloseCalls[t] > 0)

\* An initialization POST (no session id) is between its entry and its answer
InitInFlight(r) ==
  /\ req[r].pc \in {"connecting", "handling"}
  /\ req[r].method = "POST"
  /\ req[r].sid = 0

\* C37: when initialization POSTs without a session id interleave at their
\* awaits, each gets an id of its own and a record of its own holding its own
\* transport: the callback of one adds one record under an id the registry
\* does not hold, changes no other record, and leaves the other request with
\* its own transport, which no record holds.
C37_InterleavedInitializationsStayApart ==
  [][last'.op = "session-initialized"
       => LET sessionId == last'.sid IN
          /\ sessionId \notin DOMAIN sessions
          /\ DOMAIN sessions' = DOMAIN sessions \cup {sessionId}
          /\ \A id \in DOMAIN sessions :
               /\ sessions'[id] = sessions[id]
               /\ sessions'[id].transport # sessions'[sessionId].transport
          /\ \A r \in Reqs :
               (InitInFlight(r) /\ req'[r].pc # "idle")
                 => /\ req'[r] = req[r]
                    /\ ~Registered(req[r].t)'
                    /\ tSessionId'[req[r].t] = 0]_vars

\* The POST that came second has its session while the POST that came first
\* is still in flight with the transport made for it
C37_Witness ==
  /\ last.op = "session-initialized"
  /\ last.sid \in DOMAIN sessions
  /\ \E r \in Reqs :
       /\ InitInFlight(r)
       /\ req[r].t < sessions[last.sid].transport

\* C34: whenever the service is running and its socket listens, the sweeper
\* timer is armed, after the first start and after any stop followed by a
\* start on the same service object.
C34_SweeperArmedWhileRunning ==
  (isRunning /\ server = "listening") => cleanupInterval

\* The sockets of the service that are bound to the port
BoundSockets ==
  (IF server = "listening" THEN 1 ELSE 0)
    + Cardinality({ i \in DOMAIN orphans : orphans[i] = "listening" })

\* C36: while the service is running start() is rejected and creates no
\* socket, and at no time is more than one socket of the service bound, also
\* when start() is called again before the listen callback of the first call.
C36_StartRejectedWhileRunningOneSocketBound ==
  [][/\ isRunning => (starts' = starts /\ Len(orphans') = Len(orphans))
     /\ BoundSockets' <= 1]_vars

\* start() was called twice before a listen callback, one of the two sockets
\* is bound, and a third call has just been rejected
C36_Witness ==
  /\ last.op = "start-rejected"
  /\ Len(orphans) >= 1
  /\ BoundSockets = 1
  /\ starts = 2

\* C38: when a socket fails to bind, its "error" event coming before its
\* listen callback, start() rejects, the service is not marked running, and
\* a stop() that follows finds it not running and returns at once.
C38_FailedBindLeavesServiceNotRunning ==
  [][last'.op = "listen-error"
       => /\ ~isRunning'
          /\ NotRunning(server', isRunning')]_vars

\* min(sessionTimeout / 4, 5 minutes), in milliseconds
ExpectedInterval(sessionTimeout) ==
  IF sessionTimeout >= 4 * 300000 THEN 300000 ELSE sessionTimeout \div 4

\* C31: the sweeper's interval is min(sessionTimeout / 4, 5 minutes), and as
\* long as stop() has not been called on the service no session stays in the registry
\* for longer than sessionTimeout plus one interval after its last activity.
C31_IdleSessionGoneWithinTimeoutPlusInterval ==
  schedule # NoSchedule
    => /\ schedule.delay = ExpectedInterval(schedule.sessionTimeout)
       /\ server \notin {"closing", "closed"}
            => \A id \in DOMAIN sessions :
                 now - sessions[id].lastActivity
                   <= schedule.sessionTimeout + ExpectedInterval(schedule.sessionTimeout)

\* With the default timeout the interval is the cap; a session the tick at 30
\* minutes spared, idle for exactly the timeout, has been idle for the
\* timeout plus one interval when the next tick is due
C31_Witness ==
  /\ schedule # NoSchedule
  /\ schedule.sessionTimeout = DefaultSessionTimeout
  /\ schedule.delay = CleanupCap
  /\ server \notin {"closing", "closed"}
  /\ now = schedule.due
  /\ \E id \in DOMAIN sessions :
       now - sessions[id].lastActivity = schedule.sessionTimeout + schedule.delay
====
